---------------------------- MODULE Spec2Model ----------------------------
(***************************************************************************)
(* A model of orgtomate-js: getAwsResults (the paginating AWS invoker of   *)
(* src/src/get-aws-results.ts), AwsOrgNode.init and the tree queries       *)
(* (src/unnamed/part_001) and orgtomate / processAccount                   *)
(* (src/src/orgtomate.ts).                                                 *)
(*                                                                         *)
(* Seven specifications share the module's variables:                      *)
(*   SpecGAR  one getAwsResults invocation against a remote operation that *)
(*            answers every request with an error event or a success event *)
(*   Spec     one orgtomate run over a fixed organization snapshot; every  *)
(*            getAwsResults call of the run is one step that settles it,   *)
(*            resolved with the snapshot's data or rejected                *)
(*   SpecTree one AwsOrgNode.init call made directly, for any node and     *)
(*            either skipSuspended, and the query methods called on the    *)
(*            nodes of the tree it returned                                *)
(*   SpecPaths  the two ways to the accounts of the whole organization:    *)
(*            orgtomate's bulk listing, and next to it a tree built from   *)
(*            the Root                                                     *)
(*   SpecMgmt one orgtomate run that is given a management-account         *)
(*            override                                                     *)
(*   SpecEvents  one orgtomate run in which a request may also emit a      *)
(*            success event without data                                   *)
(*   SpecPaginate  one invocation of the paginate helper                   *)
(*                                                                         *)
(* Continuations that run as microtasks of the event that enables them are *)
(* part of that event's action (a child's init resolving, its populate()   *)
(* attaching it, the parent's Promise.all resolving).                      *)
(*                                                                         *)
(* Branches the code keeps for type safety and that the AWS SDK and the    *)
(* Organizations service never take are left out: nextPage() returning     *)
(* null after hasNextPage() (get-aws-results.ts:167), a request that does  *)
(* not exist (:227), an organization without a root (part_001:388), an     *)
(* unsupported nodetype (:406), a ProcessableAccount without AsyncCallback *)
(* (orgtomate.ts:169) and thrown values that are not Error objects         *)
(* (:314, :369, :378).  response.data, typed `D | void` and tested by      *)
(* handlePage, is an input of the success event and is modelled.           *)
(***************************************************************************)
EXTENDS Integers, Sequences, FiniteSets, TLC

VARIABLES
    \* ---- getAwsResults (one invocation) --------------------------------
    gPc,        \* "idle" before the call, "called" once the executor ran
    gPageable,  \* request.isPageable()
    gResultKey, \* the resultKey argument (NoKey: undefined)
    gResult,    \* the closure's result object: key -> accumulated value
    gMeta,      \* result.PaginationMetadata
    gSent,      \* the requests sent so far, in order (their input token)
    gInflight,  \* indices in gSent whose success/error event is still due
    gRecv,      \* the events received so far, in order
    gPromise,   \* the returned promise: state, value, error
    gDiag       \* number of WARNING lines written to console.error

gvars == <<gPc, gPageable, gResultKey, gResult, gMeta, gSent, gInflight,
           gRecv, gPromise, gDiag>>

VARIABLES
    \* ---- AwsOrgNode.init (one top-level tree build) --------------------
    tree,       \* per node: position of its init, Children, open populate
                \* tasks, child listings received, error it rejected with;
                \* and the errors the remote calls of the build raised
    tTop,       \* the node the top-level init was called for
    tSkip,      \* the skipSuspended argument
    tCalls      \* how many calls of each Organizations operation were issued

tvars == <<tree, tTop, tSkip, tCalls>>

VARIABLES
    \* ---- orgtomate (one run) ------------------------------------------
    oPc,        \* "idle", "resolving", "fanout", "done", "failed"
    oTarget,    \* the targetId argument
    oRecursive, \* the recursive argument
    oNodetype,  \* targetNodetype: what the target was classified as
    oPath,      \* "none", "fast" (bulk listing) or "tree" (AwsOrgNode.init)
    oTasks,     \* the processAccount tasks, in dispatch order
    oReturn,    \* what the promise returned by orgtomate settled with
    oErrLog,    \* number of "Failed to get Account IDs" lines on stderr
    oSettled    \* the tasks that have settled, in the order they did

ovars == <<oPc, oTarget, oRecursive, oNodetype, oPath, oTasks, oReturn, oErrLog, oSettled>>

VARIABLES
    \* ---- the tree queries ----------------------------------------------
    query       \* the last query method called on a node of the built tree:
                \* method, node, arguments and what it returned

qvars == <<query>>

VARIABLES
    \* ---- the management-account override ------------------------------
    mgmt        \* the override of the run: the account, the state of the role
                \* assumption into it ("none", "assuming", "assumed",
                \* "failed"), the credentials it returned and the targetId
                \* and recursive arguments waiting for it

mvars == <<mgmt>>

VARIABLES
    \* ---- success events without data -----------------------------------
    stalled     \* the getAwsResults calls of the run whose request emitted a
                \* success event with no response.data: the request is over
                \* and the promise of the call is still pending

evars == <<stalled>>

VARIABLES
    \* ---- paginate (one invocation) --------------------------------------
    pg          \* the invocation of the paginate helper: its position, the
                \* page chain the remote operation serves, config.params,
                \* paginationSettings.moreResults, the token every request
                \* carried, the pages received and the results concatenated

pvars == <<pg>>

vars == <<gvars, tvars, ovars, qvars, mvars, evars, pvars>>

(***************************************************************************)
(* Bounds                                                                  *)
(***************************************************************************)
\* longest page chain the remote operation serves
MaxPages == 3

(***************************************************************************)
(* Values of the AWS responses                                             *)
(***************************************************************************)
Vals == {"a", "b"}
Tokens == {"t1", "t2"}
Errors == {"e1", "e2"}
NoKey == "undefined"
NoToken == "none"
NoError == "none"

\* the keys a page's data may carry; "NextToken" is the operation's output
\* token, "Accounts" its payload
DataKeys == {"Accounts", "NextToken"}
\* "Roots" is a key no page of this operation carries
ResultKeys == {NoKey, "Accounts", "Roots"}

\* a JavaScript value held under a key: absent (undefined), an array, or a
\* scalar (a one-element items, arr = FALSE)
AbsentV == [has |-> FALSE, arr |-> FALSE, items |-> << >>]
ArrV(s) == [has |-> TRUE, arr |-> TRUE, items |-> s]
ScalarV(v) == [has |-> TRUE, arr |-> FALSE, items |-> <<v>>]

PageArrays == {<< >>, <<"a">>, <<"b">>, <<"a", "b">>}
PayloadValues == {AbsentV} \cup {ArrV(s) : s \in PageArrays} \cup {ScalarV("a")}
TokenValues == {AbsentV} \cup {ScalarV(t) : t \in Tokens}

\* response.data of one success event
PageData == {[Accounts |-> p, NextToken |-> t] : p \in PayloadValues, t \in TokenValues}

EmptyResult == [k \in DataKeys |-> AbsentV]

\* obj[key] for any key
Get(obj, key) == IF key \in DOMAIN obj THEN obj[key] ELSE AbsentV

\* !x for the values modelled: only undefined is falsy (arrays, also empty
\* ones, and the non-empty strings used as scalars are truthy)
Falsy(v) == ~v.has


(***************************************************************************)
(* getAwsResults                                                           *)
(***************************************************************************)
Meta0(pageable) == [Pageable |-> pageable, Paged |-> FALSE, HasPages |-> FALSE, Pages |-> 0]

NoValue == [kind |-> "none", v |-> AbsentV, res |-> EmptyResult, meta |-> Meta0(FALSE)]
KeyValue(v) == [kind |-> "key", v |-> v, res |-> EmptyResult, meta |-> Meta0(FALSE)]
AllValue(res, meta) == [kind |-> "all", v |-> AbsentV, res |-> res, meta |-> meta]

PendingPromise == [state |-> "pending", value |-> NoValue, err |-> NoError]

\* resolve(value) and reject(error) of the wrapping promise: only the first
\* settlement of a promise takes effect
Resolve(p, value) ==
    IF p.state = "pending" THEN [state |-> "resolved", value |-> value, err |-> NoError] ELSE p
Reject(p, e) ==
    IF p.state = "pending" THEN [state |-> "rejected", value |-> NoValue, err |-> e] ELSE p

\* a concat that puts the new page's values first
ConcatJSPrepend(acc, v) == v.items \o acc

\* Array.prototype.concat: an array argument is spread, any other value is
\* appended as one element
ConcatJS(acc, v) == IF v.arr THEN acc \o v.items ELSE Append(acc, v.items[1])

\* an accumulation that keeps only what the latest page carried
AccumulateLastPage(result, data) ==
    [k \in DataKeys |->
        IF data[k].has THEN ArrV(ConcatJS(<< >>, data[k])) ELSE result[k]]

\* the forEach over Object.entries(data): every key present in the page is
\* concatenated onto the key of the same name in result
Accumulate(result, data) ==
    [k \in DataKeys |->
        IF data[k].has
        THEN ArrV(ConcatJS(IF Falsy(result[k]) THEN << >> ELSE result[k].items, data[k]))
        ELSE result[k]]

\* response.hasNextPage() of the SDK: the page carries a (truthy) output token
HasNextPage(data) == data.NextToken.has
\* a next-page request that does not take the page's output token
NextPageNoToken(data) == [token |-> NoToken]

\* response.nextPage() of the SDK: the same operation with the page's output
\* token as input token; it is a request whenever hasNextPage() holds
NextPage(data) == [token |-> data.NextToken.items[1]]

\* { ...result, ...data } of the non-pageable branch: the page's own values,
\* not concatenated
Unpaginate(data) == [k \in DataKeys |-> data[k]]

\* a bookkeeping that counts only the pages that have a next page
CountPageWithNext(meta, more) ==
    [Pageable |-> gPageable,
     Paged    |-> meta.Paged \/ more,
     HasPages |-> TRUE,
     Pages    |-> (IF meta.HasPages THEN meta.Pages ELSE 0) + (IF more THEN 1 ELSE 0)]

\* the Pages bookkeeping of handlePage for a pageable operation
CountPage(meta, more) ==
    [Pageable |-> gPageable,
     Paged    |-> meta.Paged \/ more,
     HasPages |-> TRUE,
     Pages    |-> (IF meta.HasPages THEN meta.Pages ELSE 0) + 1]

\* the executor of the promise: construct the client and the request, attach
\* the listeners and send; an exception (an unknown service or operation)
\* rejects the promise
GetAwsResults(valid, pageable, key) ==
    /\ gPc = "idle"
    /\ gPc' = "called"
    /\ gPageable' = pageable
    /\ gResultKey' = key
    /\ gResult' = EmptyResult
    /\ gMeta' = Meta0(pageable)
    /\ gRecv' = << >>
    /\ gDiag' = 0
    /\ IF valid
       THEN /\ gSent' = <<[token |-> NoToken]>>
            /\ gInflight' = {1}
            /\ gPromise' = PendingPromise
       ELSE /\ gSent' = << >>
            /\ gInflight' = {}
            /\ gPromise' = Reject(PendingPromise, "e1")

\* handlePage for a success event whose response.data is falsy: the body of
\* `if (response.data)` is skipped and the handler returns
HandlePageNoData(i) ==
    /\ i \in gInflight
    /\ gInflight' = gInflight \ {i}
    /\ gRecv' = Append(gRecv, [req |-> i, kind |-> "nodata", data |-> EmptyResult, err |-> NoError])
    /\ UNCHANGED <<gPc, gPageable, gResultKey, gResult, gMeta, gSent, gPromise, gDiag>>

\* a handlePage that rejects when the last page is in and the resultKey is
\* not in the result
HandlePagePageableStrict(i, data) ==
    /\ i \in gInflight
    /\ gPageable
    /\ HasNextPage(data) => Len(gSent) < MaxPages
    /\ gRecv' = Append(gRecv, [req |-> i, kind |-> "success", data |-> data, err |-> NoError])
    /\ gMeta' = CountPage(gMeta, HasNextPage(data))
    /\ gResult' = Accumulate(gResult, data)
    /\ IF HasNextPage(data)
       THEN /\ gSent' = Append(gSent, NextPage(data))
            /\ gInflight' = (gInflight \ {i}) \cup {Len(gSent) + 1}
            /\ UNCHANGED <<gPromise, gDiag>>
       ELSE /\ gInflight' = gInflight \ {i}
            /\ UNCHANGED <<gSent, gDiag>>
            /\ IF gResultKey # NoKey
               THEN gPromise' = IF Falsy(Get(gResult', gResultKey))
                                THEN Reject(gPromise, "e1")
                                ELSE Resolve(gPromise, KeyValue(Get(gResult', gResultKey)))
               ELSE gPromise' = Resolve(gPromise, AllValue(gResult', gMeta'))
    /\ UNCHANGED <<gPc, gPageable, gResultKey>>

\* handlePage for a success event of a pageable operation
HandlePagePageable(i, data) ==
    /\ i \in gInflight
    /\ gPageable
    /\ HasNextPage(data) => Len(gSent) < MaxPages
    /\ gRecv' = Append(gRecv, [req |-> i, kind |-> "success", data |-> data, err |-> NoError])
    /\ gMeta' = CountPage(gMeta, HasNextPage(data))
    /\ gResult' = Accumulate(gResult, data)
    /\ IF HasNextPage(data)
       THEN /\ gSent' = Append(gSent, NextPage(data))
            /\ gInflight' = (gInflight \ {i}) \cup {Len(gSent) + 1}
            /\ UNCHANGED <<gPromise, gDiag>>
       ELSE /\ gInflight' = gInflight \ {i}
            /\ UNCHANGED gSent
            /\ IF gResultKey # NoKey
               THEN /\ gDiag' = gDiag + (IF Falsy(Get(gResult', gResultKey)) THEN 1 ELSE 0)
                    /\ gPromise' = Resolve(gPromise, KeyValue(Get(gResult', gResultKey)))
               ELSE /\ gDiag' = gDiag
                    /\ gPromise' = Resolve(gPromise, AllValue(gResult', gMeta'))
    /\ UNCHANGED <<gPc, gPageable, gResultKey>>

\* a handlePage that counts the single response as a page
HandlePageSingleCounted(i, data) ==
    /\ i \in gInflight
    /\ ~gPageable
    /\ gRecv' = Append(gRecv, [req |-> i, kind |-> "success", data |-> data, err |-> NoError])
    /\ gInflight' = gInflight \ {i}
    /\ gMeta' = CountPage(gMeta, FALSE)
    /\ IF gResultKey # NoKey
       THEN /\ gDiag' = gDiag + (IF Falsy(Get(Unpaginate(data), gResultKey)) THEN 1 ELSE 0)
            /\ gPromise' = Resolve(gPromise, KeyValue(Get(Unpaginate(data), gResultKey)))
       ELSE /\ gDiag' = gDiag
            /\ gPromise' = Resolve(gPromise, AllValue(Unpaginate(data), gMeta'))
    /\ UNCHANGED <<gPc, gPageable, gResultKey, gResult, gSent>>

\* handlePage for the success event of an operation that is not pageable
HandlePageSingle(i, data) ==
    /\ i \in gInflight
    /\ ~gPageable
    /\ gRecv' = Append(gRecv, [req |-> i, kind |-> "success", data |-> data, err |-> NoError])
    /\ gInflight' = gInflight \ {i}
    /\ IF gResultKey # NoKey
       THEN /\ gDiag' = gDiag + (IF Falsy(Get(Unpaginate(data), gResultKey)) THEN 1 ELSE 0)
            /\ gPromise' = Resolve(gPromise, KeyValue(Get(Unpaginate(data), gResultKey)))
       ELSE /\ gDiag' = gDiag
            /\ gPromise' = Resolve(gPromise, AllValue(Unpaginate(data), gMeta))
    /\ UNCHANGED <<gPc, gPageable, gResultKey, gResult, gMeta, gSent>>

\* an error handler that hands back what the earlier pages accumulated
HandleErrorPartial(i, e) ==
    /\ i \in gInflight
    /\ gInflight' = gInflight \ {i}
    /\ gRecv' = Append(gRecv, [req |-> i, kind |-> "error", data |-> EmptyResult, err |-> e])
    /\ gPromise' = Resolve(gPromise, AllValue(gResult, gMeta))
    /\ UNCHANGED <<gPc, gPageable, gResultKey, gResult, gMeta, gSent, gDiag>>

\* handleError: the error event of a request rejects the promise
HandleError(i, e) ==
    /\ i \in gInflight
    /\ gInflight' = gInflight \ {i}
    /\ gRecv' = Append(gRecv, [req |-> i, kind |-> "error", data |-> EmptyResult, err |-> e])
    /\ gPromise' = Reject(gPromise, e)
    /\ UNCHANGED <<gPc, gPageable, gResultKey, gResult, gMeta, gSent, gDiag>>

GarIdle ==
    /\ gPc = "idle"
    /\ gPageable = FALSE
    /\ gResultKey = NoKey
    /\ gResult = EmptyResult
    /\ gMeta = Meta0(FALSE)
    /\ gSent = << >>
    /\ gInflight = {}
    /\ gRecv = << >>
    /\ gPromise = PendingPromise
    /\ gDiag = 0


(***************************************************************************)
(* The organization snapshot the remote Organizations API serves           *)
(*                                                                         *)
(*   r-ab12                                                                *)
(*    |- 111111111111                                                      *)
(*    `- ou-ab12-a                                                         *)
(*        |- 222222222222   (SUSPENDED)                                    *)
(*        |- ou-ab12-b                                                     *)
(*        |   `- 333333333333                                              *)
(*        `- ou-ab12-c                                                     *)
(*            `- 444444444444                                              *)
(***************************************************************************)
RootId == "r-ab12"
OuA == "ou-ab12-a"
OuB == "ou-ab12-b"
OuC == "ou-ab12-c"
Acct1 == "111111111111"
Acct2 == "222222222222"
Acct3 == "333333333333"
Acct4 == "444444444444"
\* well-formed identifiers of nothing in the organization
OuX == "ou-ab12-x"
AcctX == "999999999999"

OrgOus == {OuA, OuB, OuC}
OrgAccountIds == {Acct1, Acct2, Acct3, Acct4}
OrgNodes == {RootId} \cup OrgOus \cup OrgAccountIds
Nodes == OrgNodes \cup {OuX, AcctX}

\* Organizations.listAccounts: every account of the organization with its
\* Status, whatever the Status is
ListAccounts == <<Acct1, Acct2, Acct3, Acct4>>
Status(a) == IF a = Acct2 THEN "SUSPENDED" ELSE "ACTIVE"

\* Organizations.listChildren(ParentId, ChildType: ACCOUNT)
ListChildAccounts(n) ==
    CASE n = RootId -> <<Acct1>>
      [] n = OuA    -> <<Acct2>>
      [] n = OuB    -> <<Acct3>>
      [] n = OuC    -> <<Acct4>>
      [] OTHER      -> << >>

\* Organizations.listOrganizationalUnitsForParent(ParentId)
ListChildOus(n) ==
    CASE n = RootId -> <<OuA>>
      [] n = OuA    -> <<OuB, OuC>>
      [] OTHER      -> << >>

Range(s) == {s[i] : i \in 1..Len(s)}

OrgParent(c) ==
    CHOOSE n \in OrgNodes : c \in Range(ListChildAccounts(n)) \cup Range(ListChildOus(n))

\* the nodetype the tree build works with: the target's classification for
\* the top node, Type ('ACCOUNT') or 'ORGANIZATIONAL_UNIT' for a child
NodeType(n) ==
    CASE n = RootId                      -> "ROOT"
      [] n \in OrgOus \cup {OuX}         -> "ORGANIZATIONAL_UNIT"
      [] OTHER                           -> "ACCOUNT"

(***************************************************************************)
(* AwsOrgNode.init                                                         *)
(***************************************************************************)
NoTreeError == [op |-> "none", node |-> "none"]
\* the error a failed remote call (or a failed lookup) of a node's init raises
CallError(op, n) == [op |-> op, node |-> n]

\* the operations of the Organizations API the program calls
OrgOps == {"listAccounts", "describeOrganizationalUnit", "listRoots",
           "describeOrganization", "listChildren", "listOrganizationalUnitsForParent"}
NoCalls == [op \in OrgOps |-> 0]
\* k getAwsResults('Organizations', op, orgParams, ...) calls are issued
Called(calls, op, k) == [calls EXCEPT ![op] = @ + k]
\* the two child listings of a node are issued together
ChildListingsCalled(calls, k) ==
    Called(Called(calls, "listChildren", k), "listOrganizationalUnitsForParent", k)

\* children that are never handed the parent's listing fetch it themselves
ListingCallsAlways(listing, k) == k

\* `if (thisOrgAccounts.length === 0)` in the init of k children that were
\* handed the listing of their parent: only an empty listing is fetched again
ListingCalls(listing, k) == IF Len(listing) = 0 THEN k ELSE 0

TreeIdle0 ==
    [pc       |-> [n \in Nodes |-> "idle"],
     children |-> [n \in Nodes |-> << >>],
     pending  |-> [n \in Nodes |-> {}],
     listed   |-> [n \in Nodes |-> {}],
     err      |-> [n \in Nodes |-> NoTreeError],
     failed   |-> {}]

\* the test of populate(): a SUSPENDED account is not attached when
\* skipSuspended is set
SkipChild(skip, c) == skip /\ NodeType(c) = "ACCOUNT" /\ Status(c) = "SUSPENDED"

\* thisOrgNode.addChild(newChild)
AddChild(children, c) == Append(children, c)

\* a populate() that writes back the Children it saw when it started, with
\* its own child added: the children attached in between are lost
RECURSIVE ResolveNode(_, _, _, _)
ResolveNodeLostUpdate(t, top, skip, c) ==
    LET t1 == [t EXCEPT !.pc[c] = "resolved"]
    IN  IF c = top THEN t1
        ELSE LET p  == OrgParent(c)
                 seen == SelectSeq(t1.children[p], LAMBDA x : NodeType(x) = "ACCOUNT")
                 t2 == [t1 EXCEPT !.children[p] = IF SkipChild(skip, c) THEN @ ELSE Append(seen, c),
                                  !.pending[p]  = @ \ {c}]
             IN  IF t2.pending[p] = {} /\ t2.pc[p] = "populating"
                 THEN ResolveNode(t2, top, skip, p)
                 ELSE t2

\* a populate() whose thisOrgNode is one variable shared by every init: the
\* child is attached to the node initialised last, the parent's last child
ResolveNodeSharedThis(t, top, skip, c) ==
    LET t1 == [t EXCEPT !.pc[c] = "resolved"]
    IN  IF c = top THEN t1
        ELSE LET p  == OrgParent(c)
                 q  == IF t1.children[p] = << >> THEN p
                       ELSE t1.children[p][Len(t1.children[p])]
                 t2 == [t1 EXCEPT !.children[q] = IF SkipChild(skip, c) THEN @ ELSE AddChild(@, c),
                                  !.pending[p]  = @ \ {c}]
             IN  IF t2.pending[p] = {} /\ t2.pc[p] = "populating"
                 THEN ResolveNode(t2, top, skip, p)
                 ELSE t2

\* Node c's init resolves.  Below the top node the populate() task of c's
\* parent continues: the child is attached (unless skipped), and when that
\* was the parent's last open task its Promise.all, and so its init, resolve
\* in turn.
ResolveNode(t, top, skip, c) ==
    LET t1 == [t EXCEPT !.pc[c] = "resolved"]
    IN  IF c = top THEN t1
        ELSE LET p  == OrgParent(c)
                 t2 == [t1 EXCEPT !.children[p] = IF SkipChild(skip, c) THEN @ ELSE AddChild(@, c),
                                  !.pending[p]  = @ \ {c}]
             IN  IF t2.pending[p] = {} /\ t2.pc[p] = "populating"
                 THEN ResolveNode(t2, top, skip, p)
                 ELSE t2

\* a build that isolates a failed child: its parent goes on without it
RejectNodeIsolated(t, top, c, e) ==
    LET t1 == [t EXCEPT !.pc[c] = "rejected", !.err[c] = e]
    IN  IF c = top THEN t1
        ELSE LET p  == OrgParent(c)
                 t2 == [t1 EXCEPT !.pending[p] = @ \ {c}]
             IN  IF t2.pending[p] = {} /\ t2.pc[p] = "populating"
                 THEN ResolveNode(t2, top, FALSE, p)
                 ELSE t2

\* Node c's init rejects with e.  populate() of c's parent rethrows, the
\* parent's Promise.all rejects at once, and so does the parent's init unless
\* it has rejected already; the populate() tasks of c's siblings go on.
RECURSIVE RejectNode(_, _, _, _)
RejectNode(t, top, c, e) ==
    LET t1 == [t EXCEPT !.pc[c] = "rejected", !.err[c] = e]
    IN  IF c = top THEN t1
        ELSE LET p  == OrgParent(c)
                 t2 == [t1 EXCEPT !.pending[p] = @ \ {c}]
             IN  IF t2.pc[p] = "populating" THEN RejectNode(t2, top, p, e) ELSE t2

\* a remote call (or the account lookup) of node c's init fails with e
FailNode(t, top, c, e) == RejectNode([t EXCEPT !.failed = @ \cup {e}], top, c, e)

\* flatChildren.map(populate) once both child listings are in.  Every child's
\* init starts at once.  An ACCOUNT child finds its data in the shared
\* listing and resolves without a remote call, so the account children are
\* attached first, in listing order; an ORGANIZATIONAL_UNIT child comes with
\* Name and Arn, sends its own two child listings and stays open.
RECURSIVE AttachAccounts(_, _, _)
AttachAccounts(children, skip, accts) ==
    IF accts = << >> THEN children
    ELSE AttachAccounts(IF SkipChild(skip, Head(accts)) THEN children
                        ELSE AddChild(children, Head(accts)),
                        skip, Tail(accts))

Populate(t, top, skip, n) ==
    LET accts == ListChildAccounts(n)
        ous   == ListChildOus(n)
        t1 == [t EXCEPT
                 !.pc = [m \in Nodes |->
                           IF m \in Range(accts) THEN "resolved"
                           ELSE IF m \in Range(ous) THEN "listing"
                           ELSE IF m = n THEN "populating"
                           ELSE @[m]],
                 !.children[n] = AttachAccounts(@, skip, accts),
                 !.pending[n]  = Range(ous)]
    IN  IF ous = << >> THEN ResolveNode(t1, top, skip, n) ELSE t1

\* AwsOrgNode.init(orgNode, skipSuspended) called with no account listing:
\* the first step is the bulk listAccounts call
InitCalled(top, skip) ==
    /\ tree' = [TreeIdle0 EXCEPT !.pc[top] = "accounts"]
    /\ tTop' = top
    /\ tSkip' = skip
    /\ tCalls' = Called(tCalls, "listAccounts", 1)

\* the bulk listing of the top-level init settles; then the switch on the
\* nodetype: an ACCOUNT is looked up in the listing and returned, an
\* ORGANIZATIONAL_UNIT without Name and Arn is described, a ROOT lists roots
AccountsListed(ok) ==
    /\ tree.pc[tTop] = "accounts"
    /\ tree' =
         IF ~ok THEN FailNode(tree, tTop, tTop, CallError("listAccounts", tTop))
         ELSE CASE NodeType(tTop) = "ACCOUNT" ->
                     IF tTop \in Range(ListAccounts)
                     THEN ResolveNode(tree, tTop, tSkip, tTop)
                     ELSE FailNode(tree, tTop, tTop, CallError("findAccount", tTop))
                [] NodeType(tTop) = "ORGANIZATIONAL_UNIT" ->
                     [tree EXCEPT !.pc[tTop] = "describe"]
                [] OTHER ->
                     [tree EXCEPT !.pc[tTop] = "roots"]
    /\ tCalls' =
         IF ~ok \/ NodeType(tTop) = "ACCOUNT" THEN tCalls
         ELSE IF NodeType(tTop) = "ORGANIZATIONAL_UNIT"
         THEN Called(tCalls, "describeOrganizationalUnit", 1)
         ELSE Called(tCalls, "listRoots", 1)
    /\ UNCHANGED <<tTop, tSkip>>

\* describeOrganizationalUnit settles: it fails for an id that names no
\* organizational unit, and may fail for any; then the two child listings
\* are sent
OuDescribed(n, ok) ==
    /\ tree.pc[n] = "describe"
    /\ ok => n \in OrgOus
    /\ tree' = IF ok THEN [tree EXCEPT !.pc[n] = "listing"]
               ELSE FailNode(tree, tTop, n, CallError("describeOrganizationalUnit", n))
    /\ tCalls' = IF ok THEN ChildListingsCalled(tCalls, 1) ELSE tCalls
    /\ UNCHANGED <<tTop, tSkip>>

\* listRoots settles; on success describeOrganization is called
RootsListed(n, ok) ==
    /\ tree.pc[n] = "roots"
    /\ tree' = IF ok THEN [tree EXCEPT !.pc[n] = "org"]
               ELSE FailNode(tree, tTop, n, CallError("listRoots", n))
    /\ tCalls' = IF ok THEN Called(tCalls, "describeOrganization", 1) ELSE tCalls
    /\ UNCHANGED <<tTop, tSkip>>

\* describeOrganization settles; on success the two child listings are sent
OrgDescribed(n, ok) ==
    /\ tree.pc[n] = "org"
    /\ tree' = IF ok THEN [tree EXCEPT !.pc[n] = "listing"]
               ELSE FailNode(tree, tTop, n, CallError("describeOrganization", n))
    /\ tCalls' = IF ok THEN ChildListingsCalled(tCalls, 1) ELSE tCalls
    /\ UNCHANGED <<tTop, tSkip>>

\* an init that starts on the children as soon as one of the two child
\* listings is in
ChildListingDoneEager(n, which, ok) ==
    /\ tree.pc[n] = "listing"
    /\ which \notin tree.listed[n]
    /\ tree' =
         IF ~ok THEN FailNode(tree, tTop, n, CallError(which, n))
         ELSE Populate([tree EXCEPT !.listed[n] = @ \cup {which}], tTop, tSkip, n)
    /\ tCalls' = IF ok THEN ChildListingsCalled(tCalls, Len(ListChildOus(n))) ELSE tCalls
    /\ UNCHANGED <<tTop, tSkip>>

\* one of the two child listings of n (which: "accounts" for listChildren,
\* "ous" for listOrganizationalUnitsForParent) settles; Promise.all over the
\* two rejects on the first failure and resolves with the second success
ChildListingDone(n, which, ok) ==
    /\ tree.pc[n] = "listing"
    /\ which \notin tree.listed[n]
    /\ tree' =
         IF ~ok THEN FailNode(tree, tTop, n, CallError(which, n))
         ELSE LET t1 == [tree EXCEPT !.listed[n] = @ \cup {which}]
              IN  IF t1.listed[n] = {"accounts", "ous"}
                  THEN Populate(t1, tTop, tSkip, n)
                  ELSE t1
    \* every ORGANIZATIONAL_UNIT child populate() starts issues its listings
    /\ tCalls' = IF ok /\ tree.listed[n] \cup {which} = {"accounts", "ous"}
                 THEN Called(ChildListingsCalled(tCalls, Len(ListChildOus(n))),
                             "listAccounts",
                             ListingCalls(ListAccounts,
                                          Len(ListChildAccounts(n)) + Len(ListChildOus(n))))
                 ELSE tCalls
    /\ UNCHANGED <<tTop, tSkip>>

TreeIdle ==
    /\ tree = TreeIdle0
    /\ tTop = RootId
    /\ tSkip = FALSE
    /\ tCalls = NoCalls

\* a getAccounts without the `if (this.isAccount())` case: the ACCOUNT
\* children of the node, which an account has none of
GetAccountsChildrenOnly(t, n, recursive) ==
    SelectSeq(t.children[n], LAMBDA x : NodeType(x) = "ACCOUNT")

\* a getAccounts that never descends, whatever `recursive` is
GetAccountsNeverDeep(t, n, recursive) ==
    IF NodeType(n) = "ACCOUNT" THEN <<n>>
    ELSE SelectSeq(t.children[n], LAMBDA x : NodeType(x) = "ACCOUNT")

\* a getAccounts that takes the accounts of the node's direct children and of
\* their direct children, whatever `recursive` is
GetAccountsAlwaysDeep(t, n, recursive) ==
    IF NodeType(n) = "ACCOUNT" THEN <<n>>
    ELSE LET kids == t.children[n]
             RECURSIVE walk(_)
             walk(i) == IF i > Len(kids) THEN << >>
                        ELSE GetAccountsNeverDeep(t, kids[i], FALSE) \o walk(i + 1)
         IN  walk(1)

\* getAccounts(recursive) on node n of the tree built
RECURSIVE GetAccounts(_, _, _)
GetAccountsOfChildren(children, t, k) ==
    \* the forEach over this.Children, concatenating each child's accounts
    LET RECURSIVE walk(_)
        walk(i) == IF i > Len(children) THEN << >>
                   ELSE GetAccounts(t, children[i], k) \o walk(i + 1)
    IN walk(1)
GetAccounts(t, n, recursive) ==
    IF NodeType(n) = "ACCOUNT" THEN <<n>>
    ELSE IF recursive THEN GetAccountsOfChildren(t.children[n], t, TRUE)
    ELSE SelectSeq(t.children[n], LAMBDA x : NodeType(x) = "ACCOUNT")

(***************************************************************************)
(* The query methods of a node of the built tree                           *)
(***************************************************************************)
\* what Array.prototype.find returns when no element passes the test
Undefined == "undefined"

\* this.Children.find(child => child.Id === Id)
Find(list, id) ==
    IF \E i \in 1..Len(list) : list[i] = id
    THEN list[CHOOSE i \in 1..Len(list) :
                 list[i] = id /\ \A j \in 1..(i - 1) : list[j] # id]
    ELSE Undefined

GetChild(t, n, id) == Find(t.children[n], id)

IsAccount(n) == NodeType(n) = "ACCOUNT"
IsRoot(n) == NodeType(n) = "ROOT"

\* getParentsFor(Id) on node n: only a node that has Id among its own
\* Children contributes, and only such a node asks its children
RECURSIVE GetParentsFor(_, _, _)
GetParentsFor(t, n, id) ==
    LET RECURSIVE walk(_)
        walk(i) == IF i > Len(t.children[n]) THEN << >>
                   ELSE (IF IsAccount(t.children[n][i]) THEN << >>
                         ELSE GetParentsFor(t, t.children[n][i], id)) \o walk(i + 1)
    IN  IF GetChild(t, n, id) # Undefined THEN <<n>> \o walk(1) ELSE << >>

\* getParentOusFor(Id) on node n
RECURSIVE GetParentOusFor(_, _, _)
GetParentOusFor(t, n, id) ==
    LET RECURSIVE walk(_)
        walk(i) == IF i > Len(t.children[n]) THEN << >>
                   ELSE (IF IsAccount(t.children[n][i]) THEN << >>
                         ELSE GetParentOusFor(t, t.children[n][i], id)) \o walk(i + 1)
    IN  IF GetChild(t, n, id) # Undefined
        THEN (IF IsRoot(n) THEN << >> ELSE <<n>>) \o walk(1)
        ELSE << >>

\* a getAccount that searches the direct children only
GetAccountDirect(t, n, id, recursive) == Find(GetAccountsNeverDeep(t, n, FALSE), id)

\* getAccount(Id, recursive) on node n
GetAccount(t, n, id, recursive) == Find(GetAccounts(t, n, recursive), id)

\* the node objects of the tree below and including n
RECURSIVE Subtree(_, _)
Subtree(t, n) == {n} \cup UNION {Subtree(t, t.children[n][i]) : i \in 1..Len(t.children[n])}

NoQuery == [method |-> "none", node |-> "none", id |-> "none", recursive |-> FALSE,
            list |-> << >>, found |-> Undefined]

\* a caller that holds the tree AwsOrgNode.init resolved with calls a query
\* method on one of its nodes
GetChildCalled(n, id) ==
    /\ tree.pc[tTop] = "resolved"
    /\ n \in Subtree(tree, tTop)
    /\ query' = [NoQuery EXCEPT !.method = "getChild", !.node = n, !.id = id,
                                !.found = GetChild(tree, n, id)]
    /\ UNCHANGED tvars

GetParentsForCalled(n, id) ==
    /\ tree.pc[tTop] = "resolved"
    /\ n \in Subtree(tree, tTop)
    /\ query' = [NoQuery EXCEPT !.method = "getParentsFor", !.node = n, !.id = id,
                                !.list = GetParentsFor(tree, n, id)]
    /\ UNCHANGED tvars

GetParentOusForCalled(n, id) ==
    /\ tree.pc[tTop] = "resolved"
    /\ n \in Subtree(tree, tTop)
    /\ query' = [NoQuery EXCEPT !.method = "getParentOusFor", !.node = n, !.id = id,
                                !.list = GetParentOusFor(tree, n, id)]
    /\ UNCHANGED tvars

\* a getAccounts(false) that filters this.Children in place
GetAccountsCalledInPlace(n, recursive) ==
    /\ tree.pc[tTop] = "resolved"
    /\ n \in Subtree(tree, tTop)
    /\ query' = [NoQuery EXCEPT !.method = "getAccounts", !.node = n,
                                !.recursive = recursive,
                                !.list = GetAccounts(tree, n, recursive)]
    /\ tree' = IF recursive \/ IsAccount(n) THEN tree
               ELSE [tree EXCEPT !.children[n] = SelectSeq(@, IsAccount)]
    /\ UNCHANGED <<tTop, tSkip, tCalls>>

GetAccountsCalled(n, recursive) ==
    /\ tree.pc[tTop] = "resolved"
    /\ n \in Subtree(tree, tTop)
    /\ query' = [NoQuery EXCEPT !.method = "getAccounts", !.node = n,
                                !.recursive = recursive,
                                !.list = GetAccounts(tree, n, recursive)]
    /\ UNCHANGED tvars

GetAccountCalled(n, id, recursive) ==
    /\ tree.pc[tTop] = "resolved"
    /\ n \in Subtree(tree, tTop)
    /\ query' = [NoQuery EXCEPT !.method = "getAccount", !.node = n, !.id = id,
                                !.recursive = recursive,
                                !.found = GetAccount(tree, n, id, recursive)]
    /\ UNCHANGED tvars

QueryIdle == query = NoQuery


(***************************************************************************)
(* orgtomate and processAccount                                            *)
(***************************************************************************)
NoTarget == "null"
\* the empty string, falsy like null
EmptyId == ""

TargetIds == {NoTarget, EmptyId, "Root", RootId, "r-AB12", "r-ab123", OuA, OuB, OuX,
              "ou-AB12-a", Acct1, Acct2, AcctX, "12345", "1234567890123"}

\* the characters of the identifiers
Chars(id) ==
    CASE id = "Root"   -> <<"R", "o", "o", "t">>
      [] id = RootId   -> <<"r", "-", "a", "b", "1", "2">>
      [] id = "r-AB12" -> <<"r", "-", "A", "B", "1", "2">>
      [] id = "r-ab123" -> <<"r", "-", "a", "b", "1", "2", "3">>
      [] id = "ou-AB12-a" -> <<"o", "u", "-", "A", "B", "1", "2", "-", "a">>
      [] id = "1234567890123" ->
             <<"1", "2", "3", "4", "5", "6", "7", "8", "9", "0", "1", "2", "3">>
      [] id = OuA      -> <<"o", "u", "-", "a", "b", "1", "2", "-", "a">>
      [] id = OuB      -> <<"o", "u", "-", "a", "b", "1", "2", "-", "b">>
      [] id = OuC      -> <<"o", "u", "-", "a", "b", "1", "2", "-", "c">>
      [] id = OuX      -> <<"o", "u", "-", "a", "b", "1", "2", "-", "x">>
      [] id = Acct1    -> <<"1", "1", "1", "1", "1", "1", "1", "1", "1", "1", "1", "1">>
      [] id = Acct2    -> <<"2", "2", "2", "2", "2", "2", "2", "2", "2", "2", "2", "2">>
      [] id = Acct3    -> <<"3", "3", "3", "3", "3", "3", "3", "3", "3", "3", "3", "3">>
      [] id = Acct4    -> <<"4", "4", "4", "4", "4", "4", "4", "4", "4", "4", "4", "4">>
      [] id = AcctX    -> <<"9", "9", "9", "9", "9", "9", "9", "9", "9", "9", "9", "9">>
      [] id = "12345"  -> <<"1", "2", "3", "4", "5">>
      [] OTHER         -> << >>

Digits == {"0", "1", "2", "3", "4", "5", "6", "7", "8", "9"}
LowerAlnum == Digits \cup {"a", "b", "c", "d", "e", "f", "g", "h", "i", "j", "k", "l", "m",
                           "n", "o", "p", "q", "r", "s", "t", "u", "v", "w", "x", "y", "z"}

\* /^r-[a-z0-9]{4}$/
MatchesRoot(c) ==
    /\ Len(c) = 6
    /\ c[1] = "r" /\ c[2] = "-"
    /\ \A i \in 3..6 : c[i] \in LowerAlnum

\* /^ou-[a-z0-9]+-[a-z0-9]+$/
MatchesOu(c) ==
    /\ Len(c) >= 6
    /\ c[1] = "o" /\ c[2] = "u" /\ c[3] = "-"
    /\ \E k \in 5..(Len(c) - 1) :
          /\ c[k] = "-"
          /\ \A i \in 4..(k - 1) : c[i] \in LowerAlnum
          /\ \A i \in (k + 1)..Len(c) : c[i] \in LowerAlnum

\* /^[0-9]{12}$/
MatchesAccount(c) == Len(c) = 12 /\ \A i \in 1..12 : c[i] \in Digits

\* !targetId
NotGiven(targetId) == targetId = NoTarget \/ targetId = EmptyId

\* a targeting logic that does not know the word 'Root'
ClassifyWithoutRootWord(targetId) ==
    IF NotGiven(targetId) \/ MatchesRoot(Chars(targetId)) THEN "ROOT"
    ELSE IF MatchesOu(Chars(targetId)) THEN "ORGANIZATIONAL_UNIT"
    ELSE IF MatchesAccount(Chars(targetId)) THEN "ACCOUNT"
    ELSE ""

\* the targeting logic: the nodetype of the target, "" when it has none
Classify(targetId) ==
    IF NotGiven(targetId) \/ targetId = "Root" \/ MatchesRoot(Chars(targetId)) THEN "ROOT"
    ELSE IF MatchesOu(Chars(targetId)) THEN "ORGANIZATIONAL_UNIT"
    ELSE IF MatchesAccount(Chars(targetId)) THEN "ACCOUNT"
    ELSE ""

\* the node AwsOrgNode.init is called for: Id = targetId || 'Root'; a ROOT
\* takes the Id of roots[0] once listRoots has answered
TargetNode(targetId) == IF Classify(targetId) = "ROOT" THEN RootId ELSE targetId

NullResult == [kind |-> "null", acct |-> "none", truthy |-> FALSE]
\* what the callback run for account a resolved with: any value, truthy or
\* falsy (undefined, null, 0, '', false)
CallbackResult(a, truthy) == [kind |-> "value", acct |-> a, truthy |-> truthy]

NoCreds == "none"
\* the credentials STS returns for arn:aws:iam::<a>:role/<roleName>
CredentialsFor(a) == a

\* a ProcessableAccount whose processAccount has started: the assumeRole
\* call for its RoleArn is in flight
NewTask(a) ==
    [acct |-> a, roleAccount |-> a, st |-> "assuming", creds |-> NoCreds,
     result |-> NullResult, logged |-> 0,
     \* calls issued for the task: getAwsResults('STS', 'assumeRole', ...)
     \* and awsAccount.AsyncCallback(roleCreds, awsAccount)
     assumes |-> 1, callbacks |-> 0]

Pending == [state |-> "pending", list |-> << >>, err |-> NoTreeError]
Resolved(list) == [state |-> "resolved", list |-> list, err |-> NoTreeError]
Rejected(e) == [state |-> "rejected", list |-> << >>, err |-> e]

\* awsOrgNodesToProcess.forEach(...) and processableAccountsToProcess.map(
\* processAccount): every task is started, in list order, before any is
\* awaited
Dispatch(accts) ==
    /\ oTasks' = [i \in 1..Len(accts) |-> NewTask(accts[i])]
    /\ oPc' = "fanout"
    /\ UNCHANGED <<oReturn, oErrLog, oSettled>>

\* the account-resolution try block throws e: the error is logged and
\* rethrown, the run rejects with it
ResolutionFailed(e) ==
    /\ oPc' = "failed"
    /\ oReturn' = Rejected(e)
    /\ oErrLog' = oErrLog + 1
    /\ UNCHANGED <<oTasks, oSettled>>

\* an orgtomate that builds the tree for every target
OrgtomateNoFastPath(argsOk, targetId, recursive) ==
    /\ oPc = "idle"
    /\ oTarget' = targetId
    /\ oRecursive' = recursive
    /\ oNodetype' = IF argsOk THEN Classify(targetId) ELSE ""
    /\ IF ~argsOk
       THEN /\ oPc' = "failed"
            /\ oReturn' = Rejected(CallError("arguments", "none"))
            /\ oPath' = "none"
            /\ UNCHANGED <<oTasks, oErrLog, oSettled, tvars>>
       ELSE IF Classify(targetId) = ""
       THEN /\ ResolutionFailed(CallError("invalidTarget", targetId))
            /\ oPath' = "none"
            /\ UNCHANGED tvars
       ELSE /\ oPc' = "resolving"
            /\ oPath' = "tree"
            /\ InitCalled(TargetNode(targetId), FALSE)
            /\ UNCHANGED <<oTasks, oReturn, oErrLog, oSettled>>

\* orgtomate(asyncCallback, roleInfo, targetId, recursive) up to its first
\* await
Orgtomate(argsOk, targetId, recursive) ==
    /\ oPc = "idle"
    /\ oTarget' = targetId
    /\ oRecursive' = recursive
    /\ oNodetype' = IF argsOk THEN Classify(targetId) ELSE ""
    /\ IF ~argsOk
       THEN /\ oPc' = "failed"
            /\ oReturn' = Rejected(CallError("arguments", "none"))
            /\ oPath' = "none"
            /\ UNCHANGED <<oTasks, oErrLog, oSettled, tvars>>
       ELSE IF Classify(targetId) = ""
       THEN /\ ResolutionFailed(CallError("invalidTarget", targetId))
            /\ oPath' = "none"
            /\ UNCHANGED tvars
       ELSE IF Classify(targetId) = "ROOT" /\ recursive
       THEN /\ oPc' = "resolving"
            /\ oPath' = "fast"
            /\ tCalls' = Called(tCalls, "listAccounts", 1)
            /\ UNCHANGED <<oTasks, oReturn, oErrLog, oSettled, tree, tTop, tSkip>>
       ELSE /\ oPc' = "resolving"
            /\ oPath' = "tree"
            /\ InitCalled(TargetNode(targetId), FALSE)
            /\ UNCHANGED <<oTasks, oReturn, oErrLog, oSettled>>

\* a fast path that leaves out the accounts that are not ACTIVE
FastListedActiveOnly(ok) ==
    /\ oPc = "resolving" /\ oPath = "fast"
    /\ IF ok THEN Dispatch(SelectSeq(ListAccounts, LAMBDA a : Status(a) = "ACTIVE"))
       ELSE ResolutionFailed(CallError("listAccounts", "none"))
    /\ UNCHANGED <<oTarget, oRecursive, oNodetype, oPath, tvars>>

\* the bulk listAccounts call of the fast path settles
FastListed(ok) ==
    /\ oPc = "resolving" /\ oPath = "fast"
    /\ IF ok THEN Dispatch(ListAccounts)
       ELSE ResolutionFailed(CallError("listAccounts", "none"))
    /\ UNCHANGED <<oTarget, oRecursive, oNodetype, oPath, tvars>>

\* a run that goes on with the accounts of a tree whose build was rejected
TreeSettledPartial ==
    /\ oPc = "resolving" /\ oPath = "tree"
    /\ tree.pc[tTop] \in {"resolved", "rejected"}
    /\ Dispatch(GetAccounts(tree, tTop, oRecursive))
    /\ UNCHANGED <<oTarget, oRecursive, oNodetype, oPath, tvars>>

\* AwsOrgNode.init(targetData) has settled: getAccounts(recursive) of the
\* tree is dispatched, or the rejection is rethrown
TreeSettled ==
    /\ oPc = "resolving" /\ oPath = "tree"
    /\ tree.pc[tTop] \in {"resolved", "rejected"}
    /\ IF tree.pc[tTop] = "resolved"
       THEN Dispatch(GetAccounts(tree, tTop, oRecursive))
       ELSE ResolutionFailed(tree.err[tTop])
    /\ UNCHANGED <<oTarget, oRecursive, oNodetype, oPath, tvars>>

\* the catch block of processAccount: one line on console.error, null returned
TaskFailed(task) == [task EXCEPT !.st = "failed", !.result = NullResult, !.logged = @ + 1]

\* a processAccount whose RoleToAssume is built once, from the first account
\* of the list
TaskAssumedFirstRole(task) ==
    [task EXCEPT !.st = "calling", !.creds = CredentialsFor(oTasks[1].roleAccount),
                 !.callbacks = @ + 1]

\* roleCreds is built from role.Credentials and the callback is invoked
TaskAssumed(task) ==
    [task EXCEPT !.st = "calling", !.creds = CredentialsFor(task.roleAccount),
                 !.callbacks = @ + 1]

\* processAccount returns what the callback resolved with
TaskDone(task, truthy) ==
    [task EXCEPT !.st = "done", !.result = CallbackResult(task.acct, truthy)]

\* a processAccount without the test of role.Credentials: the callback is
\* invoked with whatever the response holds
TaskCalledUnchecked(task, outcome) ==
    [task EXCEPT !.st = "calling",
                 !.creds = IF outcome = "credentials" THEN CredentialsFor(task.roleAccount)
                           ELSE NoCreds,
                 !.callbacks = @ + 1]

AssumeRoleSettledUnchecked(i, outcome) ==
    /\ i \in DOMAIN oTasks
    /\ oTasks[i].st = "assuming"
    /\ oTasks' = [oTasks EXCEPT ![i] =
                    IF outcome = "rejected" THEN TaskFailed(@)
                    ELSE TaskCalledUnchecked(@, outcome)]
    /\ oSettled' = IF outcome = "rejected" THEN Append(oSettled, i) ELSE oSettled
    /\ UNCHANGED <<oPc, oTarget, oRecursive, oNodetype, oPath, oReturn, oErrLog, tvars>>

\* a loop that awaits each processAccount before it starts the next: the
\* role assumption of task i settles only when the tasks before it are over
AssumeRoleSettledInTurn(i, outcome) ==
    /\ i \in DOMAIN oTasks
    /\ oTasks[i].st = "assuming"
    /\ \A j \in 1..(i - 1) : oTasks[j].st \in {"done", "failed"}
    /\ oTasks' = [oTasks EXCEPT ![i] =
                    IF outcome = "credentials" THEN TaskAssumed(@) ELSE TaskFailed(@)]
    /\ oSettled' = IF outcome = "credentials" THEN oSettled ELSE Append(oSettled, i)
    /\ UNCHANGED <<oPc, oTarget, oRecursive, oNodetype, oPath, oReturn, oErrLog, tvars>>

\* the assumeRole call of task i settles: rejected, resolved without a
\* complete Credentials object, or resolved with credentials, with which the
\* callback is invoked
AssumeRoleSettled(i, outcome) ==
    /\ i \in DOMAIN oTasks
    /\ oTasks[i].st = "assuming"
    /\ oTasks' = [oTasks EXCEPT ![i] =
                    IF outcome = "credentials" THEN TaskAssumed(@) ELSE TaskFailed(@)]
    /\ oSettled' = IF outcome = "credentials" THEN oSettled ELSE Append(oSettled, i)
    /\ UNCHANGED <<oPc, oTarget, oRecursive, oNodetype, oPath, oReturn, oErrLog, tvars>>

\* the callback of task i settles: it resolves with some value, which
\* processAccount returns, or rejects
CallbackSettled(i, outcome) ==
    /\ i \in DOMAIN oTasks
    /\ oTasks[i].st = "calling"
    /\ oTasks' = [oTasks EXCEPT ![i] =
                    IF outcome = "rejected" THEN TaskFailed(@)
                    ELSE TaskDone(@, outcome = "truthy")]
    /\ oSettled' = Append(oSettled, i)
    /\ UNCHANGED <<oPc, oTarget, oRecursive, oNodetype, oPath, oReturn, oErrLog, tvars>>

\* a combinator that is fulfilled with the first task (Promise.race)
AnySettled(tasks) == \E i \in DOMAIN tasks : tasks[i].st \in {"done", "failed"}

\* Promise.all(tasks) is fulfilled once every task is
AllSettled(tasks) == \A i \in DOMAIN tasks : tasks[i].st \in {"done", "failed"}

\* results collected in the order the tasks settle
ValuesInSettleOrder(tasks, settled) == [k \in DOMAIN settled |-> tasks[settled[k]].result]

\* the array Promise.all resolves with: each task's value at the task's own
\* position
PromiseAllValues(tasks, settled) == [i \in DOMAIN tasks |-> tasks[i].result]

\* results.filter(Boolean)
FilterBoolean(results) == SelectSeq(results, LAMBDA r : r.truthy)

\* the await of Promise.all(tasks) returns: orgtomate resolves with the
\* filtered results
Aggregate ==
    /\ oPc = "fanout"
    /\ AllSettled(oTasks)
    /\ oPc' = "done"
    /\ oReturn' = Resolved(FilterBoolean(PromiseAllValues(oTasks, oSettled)))
    /\ UNCHANGED <<oTarget, oRecursive, oNodetype, oPath, oTasks, oErrLog, oSettled, tvars>>

OrgtomateIdle ==
    /\ oPc = "idle"
    /\ oTarget = NoTarget
    /\ oRecursive = FALSE
    /\ oNodetype = ""
    /\ oPath = "none"
    /\ oTasks = << >>
    /\ oReturn = Pending
    /\ oErrLog = 0
    /\ oSettled = << >>

(***************************************************************************)
(* orgtomate with a management-account override (1.2.0): the role is       *)
(* assumed into the management account first and the directory is read     *)
(* with the credentials of that role.                                      *)
(***************************************************************************)
NoAccount == "none"

NoMgmt == [account |-> NoAccount, st |-> "none", creds |-> NoCreds,
           target |-> NoTarget, recursive |-> FALSE]

MgmtIdle == mgmt = NoMgmt

\* an orgtomate that sends its first directory call together with the
\* assumeRole call
OrgtomateWithManagementAccountEager(targetId, recursive, account) ==
    /\ mgmt.st = "none"
    /\ mgmt' = [account |-> account, st |-> "assuming", creds |-> NoCreds,
                target |-> targetId, recursive |-> recursive]
    /\ Orgtomate(TRUE, targetId, recursive)

\* orgtomate(asyncCallback, roleInfo, targetId, recursive, managementAccount):
\* the assumeRole call for the role in the management account is sent
OrgtomateWithManagementAccount(targetId, recursive, account) ==
    /\ oPc = "idle"
    /\ mgmt.st = "none"
    /\ mgmt' = [account |-> account, st |-> "assuming", creds |-> NoCreds,
                target |-> targetId, recursive |-> recursive]
    /\ UNCHANGED <<ovars, tvars>>

\* the assumeRole call into the management account settles: with its
\* credentials the run goes on to resolve the target, without them it fails
ManagementRoleSettled(ok) ==
    /\ mgmt.st = "assuming"
    /\ IF ok
       THEN /\ mgmt' = [mgmt EXCEPT !.st = "assumed",
                                    !.creds = CredentialsFor(mgmt.account)]
            /\ Orgtomate(TRUE, mgmt.target, mgmt.recursive)
       ELSE /\ mgmt' = [mgmt EXCEPT !.st = "failed"]
            /\ oPc' = "failed"
            /\ oReturn' = Rejected(CallError("assumeRole", mgmt.account))
            /\ UNCHANGED <<oTarget, oRecursive, oNodetype, oPath, oTasks, oErrLog,
                           oSettled, tvars>>

(***************************************************************************)
(* The calls of a run and their success events without data.  orgtomate    *)
(* and AwsOrgNode.init make every remote call through getAwsResults, whose  *)
(* handlePage does nothing when response.data is absent.                    *)
(***************************************************************************)
NoneStalled == stalled = {}

\* the getAwsResults calls of the run that have a request in flight: the
\* bulk listing of the fast path, the calls of every node's init (the calls
\* for its own data one after the other, then its two child listings) and
\* the assumeRole call of every task
InFlight ==
    ((IF oPc = "resolving" /\ oPath = "fast" THEN {<<"fast", "listAccounts">>} ELSE {})
     \cup {<<n, "own">> : n \in {m \in Nodes : tree.pc[m] \in {"accounts", "describe", "roots", "org"}}}
     \cup {<<n, "accounts">> : n \in {m \in Nodes : tree.pc[m] = "listing" /\ "accounts" \notin tree.listed[m]}}
     \cup {<<n, "ous">> : n \in {m \in Nodes : tree.pc[m] = "listing" /\ "ous" \notin tree.listed[m]}}
     \cup {<<"task", oTasks[i].acct>> : i \in {j \in DOMAIN oTasks : oTasks[j].st = "assuming"}})
    \ stalled

\* handlePage with `if (response.data)` false: nothing is resolved, rejected
\* or requested, and the promise of call c stays pending
SuccessWithoutData(c) ==
    /\ c \in InFlight
    /\ stalled' = stalled \cup {c}
    /\ UNCHANGED <<gvars, tvars, ovars, qvars, mvars, pvars>>

(***************************************************************************)
(* paginate and getPaginatedResults (src/unnamed/part_004), with           *)
(* pagination on.  The remote operation serves a chain of pages: a request *)
(* without a token is answered with page 1, a request with the output      *)
(* token of page n with page n + 1; the last page has no output token.     *)
(* The output token of page n is modelled as the number n.                 *)
(***************************************************************************)
\* longest page chain the remote operation serves to paginate
MaxChain == 3

\* requests after which an invocation is no longer followed
MaxRequests == MaxChain + 2

\* no token: the request parameter is undefined
NoTokenValue == 0

\* page[paginationSettings.resultKey]: absent, or an array
NoResults == [has |-> FALSE, items |-> << >>]
PageResults == {NoResults, [has |-> TRUE, items |-> << >>], [has |-> TRUE, items |-> <<"a">>]}

\* the page chains of 1..MaxChain pages
PageChains == UNION {[1..k -> PageResults] : k \in 1..MaxChain}

\* config.params, as far as the key named by paginationSettings.inputToken
\* goes: not an own property, or a property holding undefined or a token
NoTokenParam == [hasToken |-> FALSE, token |-> NoTokenValue]
ParamsSet == {NoTokenParam} \cup {[hasToken |-> TRUE, token |-> t] : t \in 0..(MaxChain - 1)}

\* Object.assign({ [inputToken]: paginationTokenValueForRequest }, params):
\* the properties of params are copied over the token
OperationParams(token, params) == IF params.hasToken THEN params.token ELSE token

\* page[paginationSettings.outputToken] of page n of a chain
OutputToken(chain, n) == IF n < Len(chain) THEN n ELSE NoTokenValue

\* page[paginationSettings.moreResults] of page n
MoreResults(chain, n) == n < Len(chain)

\* continueLoop after page n: moreResults when paginationSettings names
\* one, the output token otherwise
ContinueLoop(chain, n, more) ==
    IF more THEN MoreResults(chain, n) ELSE OutputToken(chain, n) # NoTokenValue

PaginateIdle0 ==
    [pc |-> "idle", chain |-> << >>, params |-> NoTokenParam, more |-> FALSE,
     sent |-> << >>, recv |-> << >>, res |-> << >>, returned |-> NoResults]

PaginateIdle == pg = PaginateIdle0

\* paginate(config) with pagination on: getPaginatedResults calls
\* awsCliFunction(undefined), which sends the first request
Paginate(chain, params, more) ==
    /\ pg.pc = "idle"
    /\ pg' = [PaginateIdle0 EXCEPT !.pc = "requesting", !.chain = chain,
                                   !.params = params, !.more = more,
                                   !.sent = <<OperationParams(NoTokenValue, params)>>]
    /\ UNCHANGED <<gvars, tvars, ovars, qvars, mvars, evars>>

\* the promise of the request in flight settles.  Rejected, or resolved
\* with a page without the result key: paginate rejects.  Otherwise the
\* page's results are yielded and pushed, and either the loop goes on with
\* the next request or paginate returns { [resultKey]: res }
PageSettled(ok) ==
    /\ pg.pc = "requesting"
    /\ LET t == pg.sent[Len(pg.sent)]
           n == t + 1
       IN  IF ~ok \/ n > Len(pg.chain) \/ ~pg.chain[n].has
           THEN pg' = [pg EXCEPT !.pc = "rejected"]
           ELSE LET res == pg.res \o pg.chain[n].items
                IN  IF ContinueLoop(pg.chain, n, pg.more)
                    THEN /\ Len(pg.sent) < MaxRequests
                         /\ pg' = [pg EXCEPT !.recv = Append(@, n), !.res = res,
                                             !.sent = Append(@, OperationParams(OutputToken(pg.chain, n), pg.params))]
                    ELSE pg' = [pg EXCEPT !.pc = "resolved", !.recv = Append(@, n),
                                          !.res = res,
                                          !.returned = [has |-> TRUE, items |-> res]]
    /\ UNCHANGED <<gvars, tvars, ovars, qvars, mvars, evars>>

(***************************************************************************)
(* Specifications                                                          *)
(***************************************************************************)
InitGAR == GarIdle /\ TreeIdle /\ OrgtomateIdle /\ QueryIdle /\ MgmtIdle /\ NoneStalled /\ PaginateIdle

NextGAR ==
    \/ \E valid \in BOOLEAN, pageable \in BOOLEAN, key \in ResultKeys :
          GetAwsResults(valid, pageable, key) /\ UNCHANGED <<tvars, ovars, qvars, mvars, evars, pvars>>
    \/ \E i \in gInflight : HandlePageNoData(i) /\ UNCHANGED <<tvars, ovars, qvars, mvars, evars, pvars>>
    \/ \E i \in gInflight, data \in PageData :
          HandlePagePageable(i, data) /\ UNCHANGED <<tvars, ovars, qvars, mvars, evars, pvars>>
    \/ \E i \in gInflight, data \in PageData :
          HandlePageSingle(i, data) /\ UNCHANGED <<tvars, ovars, qvars, mvars, evars, pvars>>
    \/ \E i \in gInflight, e \in Errors :
          HandleError(i, e) /\ UNCHANGED <<tvars, ovars, qvars, mvars, evars, pvars>>

SpecGAR == InitGAR /\ [][NextGAR]_vars

\* every request sent eventually emits its success or its error event
FairSpecGAR == SpecGAR /\ WF_vars(NextGAR)

Init == GarIdle /\ TreeIdle /\ OrgtomateIdle /\ QueryIdle /\ MgmtIdle /\ NoneStalled /\ PaginateIdle

Next ==
    \/ \E argsOk \in BOOLEAN, targetId \in TargetIds, recursive \in BOOLEAN :
          Orgtomate(argsOk, targetId, recursive) /\ UNCHANGED <<gvars, qvars, mvars, evars, pvars>>
    \/ \E ok \in BOOLEAN : AccountsListed(ok) /\ UNCHANGED <<gvars, ovars, qvars, mvars, evars, pvars>>
    \/ \E n \in Nodes, ok \in BOOLEAN : OuDescribed(n, ok) /\ UNCHANGED <<gvars, ovars, qvars, mvars, evars, pvars>>
    \/ \E n \in Nodes, ok \in BOOLEAN : RootsListed(n, ok) /\ UNCHANGED <<gvars, ovars, qvars, mvars, evars, pvars>>
    \/ \E n \in Nodes, ok \in BOOLEAN : OrgDescribed(n, ok) /\ UNCHANGED <<gvars, ovars, qvars, mvars, evars, pvars>>
    \/ \E n \in Nodes, which \in {"accounts", "ous"}, ok \in BOOLEAN :
          ChildListingDone(n, which, ok) /\ UNCHANGED <<gvars, ovars, qvars, mvars, evars, pvars>>
    \/ \E ok \in BOOLEAN : FastListed(ok) /\ UNCHANGED <<gvars, qvars, mvars, evars, pvars>>
    \/ TreeSettled /\ UNCHANGED <<gvars, qvars, mvars, evars, pvars>>
    \/ \E i \in DOMAIN oTasks, outcome \in {"credentials", "nocredentials", "rejected"} :
          AssumeRoleSettled(i, outcome) /\ UNCHANGED <<gvars, qvars, mvars, evars, pvars>>
    \/ \E i \in DOMAIN oTasks, outcome \in {"truthy", "falsy", "rejected"} :
          CallbackSettled(i, outcome) /\ UNCHANGED <<gvars, qvars, mvars, evars, pvars>>
    \/ Aggregate /\ UNCHANGED <<gvars, qvars, mvars, evars, pvars>>

Spec == Init /\ [][Next]_vars

\* the nodes a caller can hand to AwsOrgNode.init: the default Root node, or
\* a node given the Id and nodetype of an organizational unit or an account
TreeTargets == {RootId, OuA, OuB, OuX, Acct1, Acct2, AcctX}

InitTree == GarIdle /\ TreeIdle /\ OrgtomateIdle /\ QueryIdle /\ MgmtIdle /\ NoneStalled /\ PaginateIdle

NextTree ==
    \/ \E top \in TreeTargets, skip \in BOOLEAN :
          tree = TreeIdle0 /\ InitCalled(top, skip) /\ UNCHANGED <<gvars, ovars, qvars, mvars, evars, pvars>>
    \/ \E ok \in BOOLEAN : AccountsListed(ok) /\ UNCHANGED <<gvars, ovars, qvars, mvars, evars, pvars>>
    \/ \E n \in Nodes, ok \in BOOLEAN : OuDescribed(n, ok) /\ UNCHANGED <<gvars, ovars, qvars, mvars, evars, pvars>>
    \/ \E n \in Nodes, ok \in BOOLEAN : RootsListed(n, ok) /\ UNCHANGED <<gvars, ovars, qvars, mvars, evars, pvars>>
    \/ \E n \in Nodes, ok \in BOOLEAN : OrgDescribed(n, ok) /\ UNCHANGED <<gvars, ovars, qvars, mvars, evars, pvars>>
    \/ \E n \in Nodes, which \in {"accounts", "ous"}, ok \in BOOLEAN :
          ChildListingDone(n, which, ok) /\ UNCHANGED <<gvars, ovars, qvars, mvars, evars, pvars>>
    \/ \E n \in Nodes, id \in Nodes :
          GetChildCalled(n, id) /\ UNCHANGED <<gvars, ovars, mvars, evars, pvars>>
    \/ \E n \in Nodes, id \in Nodes :
          GetParentsForCalled(n, id) /\ UNCHANGED <<gvars, ovars, mvars, evars, pvars>>
    \/ \E n \in Nodes, id \in Nodes :
          GetParentOusForCalled(n, id) /\ UNCHANGED <<gvars, ovars, mvars, evars, pvars>>
    \/ \E n \in Nodes, recursive \in BOOLEAN :
          GetAccountsCalled(n, recursive) /\ UNCHANGED <<gvars, ovars, mvars, evars, pvars>>
    \/ \E n \in Nodes, id \in Nodes, recursive \in BOOLEAN :
          GetAccountCalled(n, id, recursive) /\ UNCHANGED <<gvars, ovars, mvars, evars, pvars>>

SpecTree == InitTree /\ [][NextTree]_vars

\* the identifiers that make orgtomate target the Root
RootTargets == {NoTarget, EmptyId, "Root", RootId}

InitPaths == GarIdle /\ TreeIdle /\ OrgtomateIdle /\ QueryIdle /\ MgmtIdle /\ NoneStalled /\ PaginateIdle

NextPaths ==
    \/ \E targetId \in RootTargets :
          Orgtomate(TRUE, targetId, TRUE) /\ UNCHANGED <<gvars, qvars, mvars, evars, pvars>>
    \/ \E ok \in BOOLEAN : FastListed(ok) /\ UNCHANGED <<gvars, qvars, mvars, evars, pvars>>
    \/ \E skip \in BOOLEAN :
          tree = TreeIdle0 /\ InitCalled(RootId, skip) /\ UNCHANGED <<gvars, ovars, qvars, mvars, evars, pvars>>
    \/ \E ok \in BOOLEAN : AccountsListed(ok) /\ UNCHANGED <<gvars, ovars, qvars, mvars, evars, pvars>>
    \/ \E n \in Nodes, ok \in BOOLEAN : RootsListed(n, ok) /\ UNCHANGED <<gvars, ovars, qvars, mvars, evars, pvars>>
    \/ \E n \in Nodes, ok \in BOOLEAN : OrgDescribed(n, ok) /\ UNCHANGED <<gvars, ovars, qvars, mvars, evars, pvars>>
    \/ \E n \in Nodes, which \in {"accounts", "ous"}, ok \in BOOLEAN :
          ChildListingDone(n, which, ok) /\ UNCHANGED <<gvars, ovars, qvars, mvars, evars, pvars>>
    \/ \E recursive \in BOOLEAN :
          GetAccountsCalled(tTop, recursive) /\ UNCHANGED <<gvars, ovars, mvars, evars, pvars>>

SpecPaths == InitPaths /\ [][NextPaths]_vars

\* one orgtomate run with a management-account override
MgmtTargets == {NoTarget, RootId, OuA, OuX, Acct1, "12345"}

InitMgmt == GarIdle /\ TreeIdle /\ OrgtomateIdle /\ QueryIdle /\ MgmtIdle /\ NoneStalled /\ PaginateIdle

NextMgmt ==
    \/ \E targetId \in MgmtTargets, recursive \in BOOLEAN, account \in {Acct1} :
          OrgtomateWithManagementAccount(targetId, recursive, account)
          /\ UNCHANGED <<gvars, qvars, evars, pvars>>
    \/ \E ok \in BOOLEAN : ManagementRoleSettled(ok) /\ UNCHANGED <<gvars, qvars, evars, pvars>>
    \/ \E ok \in BOOLEAN : AccountsListed(ok) /\ UNCHANGED <<gvars, ovars, qvars, mvars, evars, pvars>>
    \/ \E n \in Nodes, ok \in BOOLEAN : OuDescribed(n, ok) /\ UNCHANGED <<gvars, ovars, qvars, mvars, evars, pvars>>
    \/ \E n \in Nodes, ok \in BOOLEAN : RootsListed(n, ok) /\ UNCHANGED <<gvars, ovars, qvars, mvars, evars, pvars>>
    \/ \E n \in Nodes, ok \in BOOLEAN : OrgDescribed(n, ok) /\ UNCHANGED <<gvars, ovars, qvars, mvars, evars, pvars>>
    \/ \E n \in Nodes, which \in {"accounts", "ous"}, ok \in BOOLEAN :
          ChildListingDone(n, which, ok) /\ UNCHANGED <<gvars, ovars, qvars, mvars, evars, pvars>>
    \/ \E ok \in BOOLEAN : FastListed(ok) /\ UNCHANGED <<gvars, qvars, mvars, evars, pvars>>
    \/ TreeSettled /\ UNCHANGED <<gvars, qvars, mvars, evars, pvars>>
    \/ \E i \in DOMAIN oTasks, outcome \in {"credentials", "nocredentials", "rejected"} :
          AssumeRoleSettled(i, outcome) /\ UNCHANGED <<gvars, qvars, mvars, evars, pvars>>
    \/ \E i \in DOMAIN oTasks, outcome \in {"truthy", "falsy", "rejected"} :
          CallbackSettled(i, outcome) /\ UNCHANGED <<gvars, qvars, mvars, evars, pvars>>
    \/ Aggregate /\ UNCHANGED <<gvars, qvars, mvars, evars, pvars>>

SpecMgmt == InitMgmt /\ [][NextMgmt]_vars

\* one orgtomate run in which every request emits its error event or its
\* success event, with data or without, and every callback settles
EventTargets == {NoTarget, OuA, Acct1}

InitEvents == GarIdle /\ TreeIdle /\ OrgtomateIdle /\ QueryIdle /\ MgmtIdle /\ NoneStalled /\ PaginateIdle

NextEvents ==
    \/ \E targetId \in EventTargets, recursive \in BOOLEAN :
          Orgtomate(TRUE, targetId, recursive) /\ UNCHANGED <<gvars, qvars, mvars, evars, pvars>>
    \/ \E c \in InFlight : SuccessWithoutData(c)
    \/ \E ok \in BOOLEAN :
          <<tTop, "own">> \in InFlight /\ AccountsListed(ok)
          /\ UNCHANGED <<gvars, ovars, qvars, mvars, evars, pvars>>
    \/ \E n \in Nodes, ok \in BOOLEAN :
          <<n, "own">> \in InFlight /\ OuDescribed(n, ok)
          /\ UNCHANGED <<gvars, ovars, qvars, mvars, evars, pvars>>
    \/ \E n \in Nodes, ok \in BOOLEAN :
          <<n, "own">> \in InFlight /\ RootsListed(n, ok)
          /\ UNCHANGED <<gvars, ovars, qvars, mvars, evars, pvars>>
    \/ \E n \in Nodes, ok \in BOOLEAN :
          <<n, "own">> \in InFlight /\ OrgDescribed(n, ok)
          /\ UNCHANGED <<gvars, ovars, qvars, mvars, evars, pvars>>
    \/ \E n \in Nodes, which \in {"accounts", "ous"}, ok \in BOOLEAN :
          <<n, which>> \in InFlight /\ ChildListingDone(n, which, ok)
          /\ UNCHANGED <<gvars, ovars, qvars, mvars, evars, pvars>>
    \/ \E ok \in BOOLEAN :
          <<"fast", "listAccounts">> \in InFlight /\ FastListed(ok)
          /\ UNCHANGED <<gvars, qvars, mvars, evars, pvars>>
    \/ TreeSettled /\ UNCHANGED <<gvars, qvars, mvars, evars, pvars>>
    \/ \E i \in DOMAIN oTasks, outcome \in {"credentials", "nocredentials", "rejected"} :
          <<"task", oTasks[i].acct>> \in InFlight /\ AssumeRoleSettled(i, outcome)
          /\ UNCHANGED <<gvars, qvars, mvars, evars, pvars>>
    \/ \E i \in DOMAIN oTasks, outcome \in {"truthy", "falsy", "rejected"} :
          CallbackSettled(i, outcome) /\ UNCHANGED <<gvars, qvars, mvars, evars, pvars>>
    \/ Aggregate /\ UNCHANGED <<gvars, qvars, mvars, evars, pvars>>

SpecEvents == InitEvents /\ [][NextEvents]_vars

\* every request emits an event and every callback settles
FairSpecEvents == SpecEvents /\ WF_vars(NextEvents)

\* one invocation of paginate with pagination on
InitPaginate ==
    GarIdle /\ TreeIdle /\ OrgtomateIdle /\ QueryIdle /\ MgmtIdle /\ NoneStalled /\ PaginateIdle

NextPaginate ==
    \/ \E chain \in PageChains, params \in ParamsSet, more \in BOOLEAN :
          Paginate(chain, params, more)
    \/ \E ok \in BOOLEAN : PageSettled(ok)

SpecPaginate == InitPaginate /\ [][NextPaginate]_vars

\* one orgtomate run in which every getAwsResults call settles, and does so
\* eventually, as does every callback
FairSpec == Spec /\ WF_vars(Next)


(***************************************************************************)
(* Claims about getAwsResults (checked under SpecGAR)                      *)
(***************************************************************************)
\* the values the pages recv[1..n] carry under key, page after page
RECURSIVE PagesConcat(_, _, _)
PagesConcat(recv, key, n) ==
    IF n = 0 THEN << >>
    ELSE PagesConcat(recv, key, n - 1) \o
         (IF recv[n].kind = "success" THEN Get(recv[n].data, key).items ELSE << >>)

KeyAppeared(recv, key) ==
    \E n \in 1..Len(recv) : recv[n].kind = "success" /\ Get(recv[n].data, key).has

\* C7: a pageable call with a resultKey that resolves after N >= 1 pages
\* resolves with the concatenation, in page order, of the values each page
\* carried under that key (an array as soon as one page carried the key).
C7_PagesConcatenated ==
    (gPageable /\ gResultKey # NoKey /\ gPromise.state = "resolved") =>
        /\ Len(gRecv) >= 1
        /\ gPromise.value.kind = "key"
        /\ gPromise.value.v.items = PagesConcat(gRecv, gResultKey, Len(gRecv))
        /\ gPromise.value.v.has = KeyAppeared(gRecv, gResultKey)
        /\ gPromise.value.v.has => gPromise.value.v.arr

C7_Witness ==
    /\ gPageable /\ gResultKey = "Accounts" /\ gPromise.state = "resolved"
    /\ Len(gRecv) = 3
    /\ gPromise.value.v.items = <<"b", "a", "b", "a">>

\* C8: a pageable call has at most one request outstanding; the first
\* request carries no token; request n+1 exists only once page n has been
\* received with a next page and carries page n's output token; no request
\* follows a page without a next page; and a call that resolves has sent as
\* many requests as it received pages.
C8_OneAtATime ==
    gPageable =>
        /\ Cardinality(gInflight) <= 1
        /\ Len(gSent) = Len(gRecv) + Cardinality(gInflight)
        /\ \A n \in 1..Len(gRecv) : gRecv[n].req = n
        /\ Len(gSent) >= 1 => gSent[1].token = NoToken
        /\ \A n \in 1..Len(gSent) : n > 1 =>
              /\ Len(gRecv) >= n - 1
              /\ gRecv[n - 1].kind = "success"
              /\ HasNextPage(gRecv[n - 1].data)
              /\ gSent[n].token = gRecv[n - 1].data.NextToken.items[1]
        /\ \A n \in 1..Len(gRecv) :
              (gRecv[n].kind # "success" \/ ~HasNextPage(gRecv[n].data)) => Len(gSent) = n
        /\ gPromise.state = "resolved" =>
              /\ Len(gSent) = Len(gRecv)
              /\ gMeta.Pages = Len(gRecv)

C8_Witness ==
    /\ gPageable /\ gPromise.state = "resolved"
    /\ Len(gSent) = 3 /\ Len(gRecv) = 3
    /\ gSent[2].token = "t2" /\ gSent[3].token = "t1"

\* C9: once the request for a page has failed the promise is rejected with
\* that page's error, it holds no value, no further request has been sent,
\* and a rejected promise never changes again.
C9_ErrorState ==
    \A n \in 1..Len(gRecv) : gRecv[n].kind = "error" =>
        /\ gPromise.state = "rejected"
        /\ gPromise.err = gRecv[n].err
        /\ gPromise.value = NoValue
        /\ Len(gSent) = gRecv[n].req
        /\ gInflight = {}

\* C9, with the permanence of the rejection
C9_PageFailureRejects ==
    /\ []C9_ErrorState
    /\ [][gPromise.state = "rejected" => gPromise' = gPromise /\ gSent' = gSent]_vars

C9_Witness ==
    /\ Len(gRecv) = 3 /\ gRecv[3].kind = "error" /\ gRecv[3].err = "e2"
    /\ gResult["Accounts"].has /\ Len(gResult["Accounts"].items) >= 2
    /\ gPromise.state = "rejected"

\* C10: an invocation whose requests have all emitted their event has
\* settled: a pending promise always has a request whose success or error
\* event is still to come.
C10_PendingHasRequestInFlight ==
    (gPc = "called" /\ gPromise.state = "pending") => gInflight # {}

\* C10 as a liveness property (under FairSpecGAR): every invocation
\* eventually settles.
C10_EventuallySettles == (gPc = "called") ~> (gPromise.state # "pending")


\* the number of pages received: success events that carried data
PagesReceived(recv) == Cardinality({n \in 1..Len(recv) : recv[n].kind = "success"})

\* C23: throughout a pageable call Pages (no Pages key counting as none) is
\* the number of pages received so far and Paged is true exactly when a
\* request for a further page has been sent; a call that resolves with the
\* whole result after N pages reports Pageable = true, Pages = N and
\* Paged = (N >= 2).
C23_PagesAndPaged ==
    (gPageable /\ gPc = "called") =>
        /\ (IF gMeta.HasPages THEN gMeta.Pages ELSE 0) = PagesReceived(gRecv)
        /\ gMeta.HasPages = (PagesReceived(gRecv) >= 1)
        /\ gMeta.Paged = (Len(gSent) >= 2)
        /\ (gPromise.state = "resolved" /\ gResultKey = NoKey) =>
              /\ gPromise.value.kind = "all"
              /\ gPromise.value.meta =
                    [Pageable |-> TRUE, Paged |-> Len(gRecv) >= 2,
                     HasPages |-> TRUE, Pages |-> Len(gRecv)]

\* a call resolved after three pages: Pageable, Paged, Pages = 3
C23_Witness ==
    /\ gPageable /\ gResultKey = NoKey /\ gPromise.state = "resolved"
    /\ Len(gRecv) = 3
    /\ gPromise.value.meta.Paged /\ gPromise.value.meta.Pages = 3

LastPageIn ==
    /\ Len(gRecv) >= 1
    /\ gRecv[Len(gRecv)].kind = "success"
    /\ gPageable => ~HasNextPage(gRecv[Len(gRecv)].data)

\* C25: a call with a resultKey that no page carried has, once its last
\* page is in, written one WARNING line and resolved with an absent value;
\* it has not rejected.
C25_MissingKeyWarns ==
    (gResultKey # NoKey /\ LastPageIn /\ ~KeyAppeared(gRecv, gResultKey)) =>
        /\ gDiag = 1
        /\ gPromise.state = "resolved"
        /\ gPromise.value = KeyValue(AbsentV)

\* three pages of a pageable operation, none with the key "Roots"
C25_Witness ==
    /\ gPageable /\ gResultKey = "Roots"
    /\ Len(gRecv) = 3 /\ LastPageIn
    /\ gDiag = 1 /\ gPromise.state = "resolved"

\* C26: a pageable call without resultKey that resolves, resolves with the
\* result object: under every key some page carried, the concatenation in
\* page order of the values the pages carried under it, no other key, and
\* the PaginationMetadata block.
C26_WholeResult ==
    (gPageable /\ gResultKey = NoKey /\ gPromise.state = "resolved") =>
        /\ gPromise.value.kind = "all"
        /\ \A k \in DataKeys :
              gPromise.value.res[k] =
                 IF KeyAppeared(gRecv, k) THEN ArrV(PagesConcat(gRecv, k, Len(gRecv)))
                 ELSE AbsentV
        /\ gPromise.value.meta.Pageable /\ gPromise.value.meta.HasPages

\* three pages; the payload key was carried by the first and the last page
\* only, the token key by the first two
C26_Witness ==
    /\ gPageable /\ gResultKey = NoKey /\ gPromise.state = "resolved"
    /\ Len(gRecv) = 3
    /\ gRecv[1].data.Accounts.has /\ ~gRecv[2].data.Accounts.has
    /\ gPromise.value.res.Accounts = ArrV(<<"a", "b", "a">>)
    /\ Len(gPromise.value.res.NextToken.items) = 2


(***************************************************************************)
(* Claims about orgtomate (checked under Spec)                             *)
(***************************************************************************)
\* the position at which account a was dispatched
TaskIndex(a) == CHOOSE i \in DOMAIN oTasks : oTasks[i].acct = a

\* C1: a run that has dispatched its tasks never rejects, whatever subset
\* of the tasks fails, and when it resolves the result of every task that
\* did not fail is in the returned list.
C1_FailuresIsolated ==
    /\ oTasks # << >> => oReturn.state # "rejected"
    /\ oPc = "done" =>
          /\ oReturn.state = "resolved"
          /\ \A i \in DOMAIN oTasks : oTasks[i].st = "done" =>
                \E j \in DOMAIN oReturn.list : oReturn.list[j] = oTasks[i].result

\* what C1 leaves of the code: the same with "the result of every task that
\* resolved with a truthy value"
C1_FailuresIsolatedForTruthyResults ==
    /\ oTasks # << >> => oReturn.state # "rejected"
    /\ oPc = "done" =>
          /\ oReturn.state = "resolved"
          /\ \A i \in DOMAIN oTasks : (oTasks[i].st = "done" /\ oTasks[i].result.truthy) =>
                \E j \in DOMAIN oReturn.list : oReturn.list[j] = oTasks[i].result

\* C2: the list a run resolves with holds exactly one entry for every
\* account whose role assumption and callback succeeded, whatever the
\* callback resolved with, and nothing else (no null, no entry of a failed
\* account).
C2_OneEntryPerSuccess ==
    oPc = "done" =>
        /\ \A i \in DOMAIN oTasks : oTasks[i].st = "done" =>
              Cardinality({j \in DOMAIN oReturn.list : oReturn.list[j].acct = oTasks[i].acct}) = 1
        /\ \A j \in DOMAIN oReturn.list :
              /\ oReturn.list[j].kind = "value"
              /\ \E i \in DOMAIN oTasks :
                    oTasks[i].st = "done" /\ oTasks[i].result = oReturn.list[j]

\* C3: the entries of the returned list are in dispatch order, in whatever
\* order the tasks settled.
C3_DispatchOrder ==
    oReturn.state = "resolved" =>
        \A j, k \in DOMAIN oReturn.list :
            j < k => TaskIndex(oReturn.list[j].acct) < TaskIndex(oReturn.list[k].acct)

\* a run of four tasks of which the last dispatched settled first, the first
\* dispatched last, one failed, and three entries are returned
C3_Witness ==
    /\ oReturn.state = "resolved"
    /\ Len(oTasks) = 4 /\ Len(oReturn.list) = 3
    /\ oSettled[1] = 4 /\ oSettled[4] = 1
    /\ oTasks[2].st = "failed"

\* C4: a run whose target resolution failed has rejected with the error of
\* the failure (the invalid target, or an error a remote call of the
\* resolution raised), has returned nothing and has started no task; a
\* failed remote call of the tree build never lets the run fan out; and the
\* failed run never changes again.
C4_FailedState ==
    /\ oPc = "failed" =>
          /\ oReturn.state = "rejected"
          /\ oReturn.list = << >>
          /\ oTasks = << >>
          /\ oPath = "tree" => oReturn.err \in tree.failed
          /\ oPath = "fast" => oReturn.err = CallError("listAccounts", "none")
          /\ (oPath = "none" /\ oReturn.err.op # "arguments") =>
                oReturn.err = CallError("invalidTarget", oTarget)
    /\ (oPath = "tree" /\ tree.failed # {}) =>
          /\ tree.pc[tTop] = "rejected"
          /\ oPc \in {"resolving", "failed"}
          /\ oTasks = << >>
    /\ (oPath # "none" /\ oPc \in {"fanout", "done"}) => tree.failed = {}

\* C4, with the Failed outcome being terminal
C4_ResolutionFailureIsFatal ==
    /\ []C4_FailedState
    /\ [][oPc = "failed" => (oPc' = "failed" /\ oReturn' = oReturn /\ oTasks' = oTasks)]_vars

\* the listing of the child OUs of ou-ab12-b failed while root's tree was built
C4_Witness ==
    /\ oPc = "failed" /\ oPath = "tree" /\ tTop = RootId
    /\ oReturn.err = CallError("ous", OuB)
    /\ tree.pc[OuC] = "resolved"

\* C5: when the run has resolved, no role assumption and no callback of it
\* is in flight.
C5_ResolvesAfterAllSettled ==
    oReturn.state = "resolved" =>
        \A i \in DOMAIN oTasks : oTasks[i].st \in {"done", "failed"}

C5_Witness ==
    /\ oReturn.state = "resolved"
    /\ Len(oTasks) = 4
    /\ \E i, j \in DOMAIN oTasks : oTasks[i].st = "done" /\ oTasks[j].st = "failed"

\* C6: no task (role assumption, callback) is ever started for an account
\* whose Status is SUSPENDED.
C6_NoSuspendedAccountProcessed ==
    \A i \in DOMAIN oTasks : Status(oTasks[i].acct) # "SUSPENDED"


Descendants(t, n) == Subtree(t, n) \ {n}
AccountsIn(nodes) == {a \in nodes : IsAccount(a)}

\* the nodes from n down to the immediate parent of id, for an id below n
RECURSIVE ChainTo(_, _, _)
ChainTo(t, n, id) ==
    IF id \in Range(t.children[n]) THEN <<n>>
    ELSE <<n>> \o ChainTo(t, CHOOSE c \in Range(t.children[n]) : id \in Subtree(t, c), id)

\* C12: getParentsFor(id), called on a node of a built tree for an id at any
\* depth below that node, returns the nodes from the called node down to the
\* id's immediate parent, in that order.
C12_ParentsChain ==
    (query.method = "getParentsFor" /\ query.id \in Descendants(tree, query.node))
        => query.list = ChainTo(tree, query.node, query.id)

\* C13: getParentOusFor(id) returns what getParentsFor(id) returns without
\* the ROOT nodes, and called on the Root for an account of an organizational
\* unit directly below the Root it returns exactly that organizational unit.
C13_ParentOusChain ==
    query.method = "getParentOusFor" =>
        /\ query.list = SelectSeq(GetParentsFor(tree, query.node, query.id),
                                  LAMBDA x : ~IsRoot(x))
        /\ (/\ query.node = RootId
            /\ IsAccount(query.id)
            /\ query.id \in Range(tree.children[OuA])) => query.list = <<OuA>>

\* C14: getAccounts(true), called on any node of a built tree, returns the
\* ACCOUNT nodes of that node's subtree, each exactly once.
C14_AllAccountsOnce ==
    (query.method = "getAccounts" /\ query.recursive) =>
        /\ Range(query.list) = AccountsIn(Subtree(tree, query.node))
        /\ Len(query.list) = Cardinality(AccountsIn(Subtree(tree, query.node)))

\* getAccounts(true) on the Root of the whole organization: accounts of three
\* levels
C14_Witness ==
    /\ query.method = "getAccounts" /\ query.recursive
    /\ query.node = RootId
    /\ Range(query.list) = OrgAccountIds

C16_AccountFoundOrUndefined ==
    (query.method = "getAccount" /\ query.recursive) =>
        /\ query.id \in AccountsIn(Descendants(tree, query.node)) => query.found = query.id
        /\ query.id \notin Subtree(tree, query.node) => query.found = Undefined

\* an account two levels down is found from the Root
C16_Witness ==
    /\ query.method = "getAccount" /\ query.recursive
    /\ query.node = RootId /\ query.id = Acct3
    /\ query.found = Acct3

\* C17: with skipSuspended = true the tree AwsOrgNode.init resolves with
\* holds no node whose Status is SUSPENDED, whatever node it was called for.
C17_NoSuspendedNode ==
    (tSkip /\ tree.pc[tTop] = "resolved") =>
        \A n \in Subtree(tree, tTop) : Status(n) # "SUSPENDED"


\* C27: a tree build has fetched the bulk account listing exactly once, in
\* the top-level init, however far the build has got; every account node
\* of the tree was resolved from that listing, and no child was described
\* by a call of its own.
C27_ListingFetchedOnce ==
    tree # TreeIdle0 =>
        /\ tCalls["listAccounts"] = 1
        /\ \A n \in Nodes : (IsAccount(n) /\ tree.pc[n] = "resolved") => n \in Range(ListAccounts)
        /\ tCalls["describeOrganizationalUnit"] <=
              (IF NodeType(tTop) = "ORGANIZATIONAL_UNIT" THEN 1 ELSE 0)

\* the whole organization was built: three organizational units, four
\* accounts, one listing
C27_Witness ==
    /\ tTop = RootId /\ tree.pc[RootId] = "resolved"
    /\ AccountsIn(Subtree(tree, RootId)) = OrgAccountIds
    /\ tCalls["listChildren"] = 4
    /\ tCalls["listAccounts"] = 1

\* C29: a step in which getChild, getAccounts, getAccount, getParentsFor or
\* getParentOusFor is called (or any step after which another query is the
\* last one called) issues no remote call and changes no node, no Children
\* collection and nothing else of the tree.
C29_QueriesReadOnly ==
    [][query' # query => (tree' = tree /\ tCalls' = tCalls /\ tTop' = tTop /\ tSkip' = tSkip)]_vars

\* getAccounts(false) was called on a node that has children of both kinds
C29_Witness ==
    /\ query.method = "getAccounts" /\ ~query.recursive
    /\ query.node = RootId
    /\ tree.children[RootId] = <<Acct1, OuA>>
    /\ tCalls["listChildren"] = 4

\* the children the listings of n report, without those populate() skips
ExpectedChildren(n) ==
    {c \in Range(ListChildAccounts(n)) \cup Range(ListChildOus(n)) : ~SkipChild(tSkip, c)}

\* C30: in every state of a build, whatever the order in which sibling
\* inits complete, no node holds a child twice, every child sits under the
\* node whose listing reported it and under no other, and a node whose init
\* has resolved holds exactly the children its listings reported, without
\* the SUSPENDED accounts skipped.
C30_AttachedExactlyOnce ==
    \A n \in Nodes :
        /\ Len(tree.children[n]) = Cardinality(Range(tree.children[n]))
        /\ Range(tree.children[n]) \subseteq ExpectedChildren(n)
        /\ \A m \in Nodes : m # n => Range(tree.children[n]) \cap Range(tree.children[m]) = {}
        /\ (tree.pc[n] = "resolved" /\ ~IsAccount(n)) =>
              Range(tree.children[n]) = ExpectedChildren(n)

\* the second organizational unit listed completed before the first
C30_Witness ==
    /\ tree.pc[OuA] = "resolved"
    /\ tree.children[OuA] = <<Acct2, OuC, OuB>>

(***************************************************************************)
(* Claims about the two ways to the accounts of the organization (checked  *)
(* under SpecPaths)                                                        *)
(***************************************************************************)
\* the ids of the accounts orgtomate dispatched a task for
DispatchedIds == {oTasks[i].acct : i \in DOMAIN oTasks}

\* C18: over the same organization snapshot, the account ids orgtomate
\* dispatches for target Root with recursive = true, taken from the bulk
\* listing, are the account ids getAccounts(true) returns on the full tree
\* built from the Root.
C18_FastPathEqualsTree ==
    (/\ oPc = "fanout" /\ oPath = "fast"
     /\ ~tSkip
     /\ query.method = "getAccounts" /\ query.node = RootId /\ query.recursive)
        => DispatchedIds = Range(query.list)

\* both ways were taken: four accounts from the bulk listing, four from the tree
C18_Witness ==
    /\ oPc = "fanout" /\ oPath = "fast" /\ Len(oTasks) = 4
    /\ ~tSkip
    /\ query.method = "getAccounts" /\ query.node = RootId /\ query.recursive
    /\ Len(query.list) = 4

(***************************************************************************)
(* Claims about orgtomate's targeting (checked under Spec)                 *)
(***************************************************************************)
\* C19: a run for a ROOT target with recursive = true has issued exactly one
\* listAccounts call and no other Organizations call, and has started no
\* AwsOrgNode.init, when it fans out (and at any time of the run).
C19_FastPathOneListing ==
    (oNodetype = "ROOT" /\ oRecursive /\ oPc \in {"resolving", "fanout", "done", "failed"}) =>
        /\ tCalls = Called(NoCalls, "listAccounts", 1)
        /\ tree = TreeIdle0

\* the run has fanned out over the accounts of the bulk listing
C19_Witness ==
    /\ oNodetype = "ROOT" /\ oRecursive
    /\ oPc = "fanout"
    /\ Len(oTasks) = Len(ListAccounts)

\* what the claim makes of the identifiers tried
C20_Roots == {NoTarget, "Root", RootId}
C20_Ous == {OuA, OuB, OuX}
C20_Accounts == {Acct1, Acct2, AcctX}

\* the argument checks passed and the target was looked at
Targeted == oPc # "idle" /\ oReturn.err.op # "arguments"

\* the run failed with the invalid-target error and issued no remote call:
\* no Organizations call, no AwsOrgNode.init, no assumeRole
InvalidTargetFailure ==
    /\ oPc = "failed"
    /\ oReturn = Rejected(CallError("invalidTarget", oTarget))
    /\ tCalls = NoCalls /\ tree = TreeIdle0 /\ oTasks = << >>

\* C20 (as stated): null, "Root" and ids of the root pattern are ROOT, ids of
\* the ou pattern ORGANIZATIONAL_UNIT, ids of 12 digits ACCOUNT, and every
\* other identifier fails with the invalid-target error before any remote
\* call.
C20_ClassifiedByShape ==
    Targeted =>
        /\ oTarget \in C20_Roots => oNodetype = "ROOT"
        /\ oTarget \in C20_Ous => oNodetype = "ORGANIZATIONAL_UNIT"
        /\ oTarget \in C20_Accounts => oNodetype = "ACCOUNT"
        /\ oTarget \notin C20_Roots \cup C20_Ous \cup C20_Accounts => InvalidTargetFailure

\* C20 (amended): as stated, with the empty string among the targets that
\* are ROOT.
C20_ClassifiedByShapeOrEmpty ==
    Targeted =>
        /\ oTarget \in C20_Roots \cup {EmptyId} => oNodetype = "ROOT" /\ ~InvalidTargetFailure
        /\ oTarget \in C20_Ous => oNodetype = "ORGANIZATIONAL_UNIT" /\ ~InvalidTargetFailure
        /\ oTarget \in C20_Accounts => oNodetype = "ACCOUNT" /\ ~InvalidTargetFailure
        /\ oTarget \notin C20_Roots \cup {EmptyId} \cup C20_Ous \cup C20_Accounts
              => InvalidTargetFailure

\* an identifier of 13 digits was refused
C20_Witness ==
    /\ oTarget = "1234567890123"
    /\ InvalidTargetFailure


(***************************************************************************)
(* Claims about processAccount (checked under Spec)                        *)
(***************************************************************************)
\* the returned list holds an entry for the account of task i
HasEntry(i) == \E j \in DOMAIN oReturn.list : oReturn.list[j].acct = oTasks[i].acct

\* C21: when the run has resolved, every dispatched account without an entry
\* in the returned list has exactly one "Failed to process account <id>"
\* line on console.error.
C21_DroppedAccountLogged ==
    oPc = "done" =>
        \A i \in DOMAIN oTasks : ~HasEntry(i) => oTasks[i].logged = 1

\* C22: every dispatched account has one task; for each task assumeRole was
\* called at most once and the callback at most once, failed tasks
\* included, and the callback only with the credentials its own assumeRole
\* call returned.
C22_AtMostOnce ==
    /\ \A i, j \in DOMAIN oTasks : oTasks[i].acct = oTasks[j].acct => i = j
    /\ \A i \in DOMAIN oTasks :
          /\ oTasks[i].assumes <= 1
          /\ oTasks[i].callbacks <= 1
          /\ oTasks[i].callbacks = 1 =>
                /\ oTasks[i].creds # NoCreds
                /\ oTasks[i].creds = CredentialsFor(oTasks[i].acct)

\* of four tasks one failed before its callback was invoked, one failed in
\* its callback and one succeeded
C22_Witness ==
    /\ oPc = "done" /\ Len(oTasks) = 4
    /\ \E i, j, k \in DOMAIN oTasks :
          /\ oTasks[i].st = "failed" /\ oTasks[i].callbacks = 0
          /\ oTasks[j].st = "failed" /\ oTasks[j].callbacks = 1
          /\ oTasks[k].st = "done" /\ oTasks[k].callbacks = 1

(***************************************************************************)
(* Claims about the management-account override (checked under SpecMgmt)   *)
(***************************************************************************)
\* a directory call has been issued: the bulk listing, or any call of a tree
\* build
DirectoryCalled == tCalls # NoCalls \/ tree # TreeIdle0 \/ oPath # "none"

TopSettled == tree.pc[tTop] \in {"resolved", "rejected"}

\* C31: in no step taken after the top-level AwsOrgNode.init has settled,
\* resolved or rejected, does the Children collection of any node change.
C31_ReadOnlyAfterSettle ==
    [][TopSettled => tree'.children = tree.children]_vars

\* the same for a build that resolved
C31_ReadOnlyAfterResolve ==
    [][tree.pc[tTop] = "resolved" => tree' = tree]_vars

(***************************************************************************)
(* Claims about the fan-out (checked under Spec)                           *)
(***************************************************************************)
\* C32: while the run awaits its tasks, the role assumption of every
\* dispatched account has been issued, and whatever the other tasks are
\* doing, a task whose role assumption is outstanding can have it complete
\* and a task whose callback is running can have it complete: no task waits
\* for another.
C32_NoTaskWaitsForAnother ==
    oPc = "fanout" =>
        \A i \in DOMAIN oTasks :
            /\ oTasks[i].assumes = 1
            /\ oTasks[i].st = "assuming" => ENABLED AssumeRoleSettled(i, "credentials")
            /\ oTasks[i].st = "calling" => ENABLED CallbackSettled(i, "truthy")

\* the first of four tasks still waits for its role assumption, the three
\* after it have been through role assumption and callback
C32_Witness ==
    /\ oPc = "fanout" /\ Len(oTasks) = 4
    /\ oTasks[1].st = "assuming" /\ oTasks[1].callbacks = 0
    /\ \A i \in 2..4 : oTasks[i].st = "done" /\ oTasks[i].callbacks = 1

(***************************************************************************)
(* Claims about termination (checked under FairSpecEvents and FairSpec)    *)
(***************************************************************************)
\* C33: when every request emits its event and every callback settles, a
\* run that is resolving its targets or awaiting its tasks eventually
\* resolves or rejects.
C33_RunTerminates ==
    (oPc \in {"resolving", "fanout"}) ~> (oPc \in {"done", "failed"})

\* the same when every getAwsResults call of the run settles
C33_RunTerminatesIfCallsSettle ==
    (oPc # "idle") ~> (oPc \in {"done", "failed"})

(***************************************************************************)
(* Claims about the order of the calls of init (checked under SpecTree)    *)
(***************************************************************************)
\* C34: a node that is still resolving its own data has no child listing
\* issued or answered; the two child listings are issued in the same step,
\* so that neither is issued after the other has been answered; and the
\* init of a child has started only if both listings of its parent have
\* completed.
C34_ListingsThenChildren ==
    /\ tCalls["listChildren"] = tCalls["listOrganizationalUnitsForParent"]
    /\ \A n \in Nodes :
          /\ tree.pc[n] \in {"idle", "accounts", "describe", "roots", "org"} =>
                /\ tree.listed[n] = {}
                /\ tree.children[n] = << >>
                /\ \A c \in OrgNodes : (c # tTop /\ c # RootId /\ OrgParent(c) = n) => tree.pc[c] = "idle"
          /\ \A c \in OrgNodes :
                (c # tTop /\ c # RootId /\ OrgParent(c) = n /\ tree.pc[c] # "idle") =>
                    tree.listed[n] = {"accounts", "ous"}

\* the Root has both its listings, one of its child units has just issued
\* its own two and neither has been answered
C34_Witness ==
    /\ tTop = RootId
    /\ tree.listed[RootId] = {"accounts", "ous"}
    /\ tree.pc[OuA] = "listing" /\ tree.listed[OuA] = {}
    /\ tCalls["listChildren"] = 2 /\ tCalls["listOrganizationalUnitsForParent"] = 2

(***************************************************************************)
(* Claims about the credentials of a task (checked under Spec)             *)
(***************************************************************************)
\* C35: in every state, whatever the order in which the tasks have moved,
\* a task whose callback has been invoked assumed the role of its own
\* account, holds the credentials returned for that role, and holds the
\* credentials of no other dispatched account.
C35_OwnCredentialsOnly ==
    \A i \in DOMAIN oTasks :
        /\ oTasks[i].roleAccount = oTasks[i].acct
        /\ oTasks[i].callbacks > 0 =>
              /\ oTasks[i].creds = CredentialsFor(oTasks[i].roleAccount)
              /\ \A j \in DOMAIN oTasks :
                    j # i => oTasks[i].creds # CredentialsFor(oTasks[j].acct)

\* the tasks of four accounts got their credentials and three of them
\* completed, last account first
C35_Witness ==
    /\ Len(oTasks) = 4
    /\ \A i \in 1..4 : oTasks[i].callbacks = 1
    /\ oTasks[4].st = "done" /\ oTasks[1].st = "calling"
    /\ oSettled = <<4, 3, 2>>

(***************************************************************************)
(* Claims about an ACCOUNT target (checked under Spec)                     *)
(***************************************************************************)
\* C36: a run whose target is a 12-digit id of an account of the
\* organization goes through the tree build, and once it has dispatched it
\* has exactly one task, for that account, for either value of recursive;
\* it fails only if the bulk listing failed.
C36_AccountTargetOneTask ==
    (oNodetype = "ACCOUNT" /\ oTarget \in OrgAccountIds) =>
        /\ oPath = "tree"
        /\ oPc \in {"fanout", "done"} =>
              (Len(oTasks) = 1 /\ oTasks[1].acct = oTarget)
        /\ oPc = "failed" => oReturn.err = CallError("listAccounts", oTarget)

\* a recursive run on an account has completed with that account's result
C36_Witness ==
    /\ oTarget = Acct1 /\ oRecursive
    /\ oPc = "done"
    /\ Len(oTasks) = 1 /\ oTasks[1].acct = Acct1
    /\ Len(oReturn.list) = 1

(***************************************************************************)
(* Claims about the shape of the tree (checked under SpecTree)             *)
(***************************************************************************)
\* C37: in every state of a build, before and after it settles, a node of
\* type ACCOUNT has no children, has issued no child listing and waits for
\* no child; a node that has children is a ROOT or an ORGANIZATIONAL_UNIT.
C37_AccountsAreLeaves ==
    \A n \in Nodes :
        /\ NodeType(n) = "ACCOUNT" =>
              /\ tree.children[n] = << >>
              /\ tree.pending[n] = {}
              /\ tree.listed[n] = {}
              /\ tree.pc[n] \notin {"listing", "populating"}
        /\ tree.children[n] # << >> => NodeType(n) \in {"ROOT", "ORGANIZATIONAL_UNIT"}

\* the whole organization was built, every account attached under its parent
C37_Witness ==
    /\ tTop = RootId /\ ~tSkip /\ tree.pc[RootId] = "resolved"
    /\ \A a \in OrgAccountIds :
          tree.pc[a] = "resolved" /\ a \in Range(tree.children[OrgParent(a)])

(***************************************************************************)
(* Claims about paginate (checked under SpecPaginate)                      *)
(***************************************************************************)
\* every page of the chain carries the result key
AllPagesHaveResults == \A n \in DOMAIN pg.chain : pg.chain[n].has

\* the results of the pages of a chain, in page order
RECURSIVE ChainConcat(_)
ChainConcat(chain) ==
    IF chain = << >> THEN << >>
    ELSE ChainConcat(SubSeq(chain, 1, Len(chain) - 1)) \o chain[Len(chain)].items

\* the first request carries no token, request n + 1 the output token of
\* page n, and no more requests are sent than the chain has pages
RequestsFollowChain ==
    /\ Len(pg.sent) <= Len(pg.chain)
    /\ \A n \in DOMAIN pg.sent : pg.sent[n] = n - 1

\* C38: for every params object, an invocation on a chain of K pages that
\* all carry the result key sends the first request without a token and
\* request n + 1 with the output token of page n, never more than K
\* requests, and when it returns it has sent exactly K and returns the
\* pages' results concatenated in page order.
C38_PaginateFollowsChain ==
    AllPagesHaveResults =>
        /\ RequestsFollowChain
        /\ pg.pc = "resolved" =>
              /\ Len(pg.sent) = Len(pg.chain)
              /\ pg.returned = [has |-> TRUE, items |-> ChainConcat(pg.chain)]

\* the same for a params object without the input token's key
C38_PaginateFollowsChainOwnToken ==
    (AllPagesHaveResults /\ ~pg.params.hasToken) =>
        /\ RequestsFollowChain
        /\ pg.pc = "resolved" =>
              /\ Len(pg.sent) = Len(pg.chain)
              /\ pg.returned = [has |-> TRUE, items |-> ChainConcat(pg.chain)]
        /\ (pg.pc = "requesting" /\ Len(pg.recv) < Len(pg.chain)) => ENABLED PageSettled(TRUE)

=========================================================================
